---- MODULE Spec2Model ----
(***************************************************************************)
(* A model of the retrieval-augmented prompting core of chatdocs:          *)
(* chunkDocument (document-utils.ts), extractKeywords / findRelevantChunks *)
(* and the two generation backends, WebLLMService (local) and              *)
(* OpenAIService (remote).                                                 *)
(*                                                                         *)
(* Text is a sequence of one-character strings, so that lowercasing,       *)
(* punctuation stripping, splitting and substring search are computed the  *)
(* way the JavaScript does them.                                           *)
(***************************************************************************)
EXTENDS Integers, Sequences, FiniteSets, TLC

VARIABLES
    \* ---- one backend instance
    kind,          \* "local" (WebLLMService) or "remote" (OpenAIService)
    document,      \* this.document (NullDocument for null)
    chatHistory,   \* this.chatHistory
    engine,        \* local: this.engine, "null" or "engine"
    isInitialized, \* local: this.isInitialized
    initPromise,   \* local: this.initPromise: "null", "pending", "resolved"
                   \* or "rejected"
    calls,         \* the generateResponse calls, by call slot
    started,       \* the number of generateResponse calls made so far
    \* ---- history variables, read by the properties only
    lastOp,        \* the operation that ran last, with the state it found
    exchanges,     \* the (question, response) pairs completed since the last
                   \* setDocument, in order of completion
    sinceClear,    \* the pairs completed since chatHistory was last emptied
    side,          \* the summarizeDocument / extractKeyTopics call
    loads,         \* local: the number of times CreateMLCEngine was called
    \* ---- the pure-function harnesses
    kwText,        \* extractKeywords: the input text
    kwResult,      \* extractKeywords: the returned array
    kwPc,
    rankQuery,     \* findRelevantChunks: query
    rankChunks,    \* findRelevantChunks: this.document.chunks
    rankMax,       \* findRelevantChunks: maxChunks
    rankResult,    \* findRelevantChunks: the returned array
    rankPc,
    chunkText,     \* chunkDocument: content
    chunkSize,     \* chunkDocument: chunkSize
    chunkResult,   \* chunkDocument: the returned array
    chunkPc,
    topText,       \* extractKeyTopics: the text the model answered with
    topResult,     \* extractKeyTopics: the returned array
    topPc,
    sumContent,    \* summarizeDocument: this.document.content
    sumMax,        \* summarizeDocument: maxContentLength
    sumSent,       \* summarizeDocument: the content put into the prompt
    sumPc,
    \* ---- the application around the services
    ctor,          \* an OpenAIService from its construction to its request
    hook,          \* the state of the chat hook useWebLLM
    store,         \* the document store and lastProcessedDocumentId
    analysis       \* the state of the DocumentAnalysis component

fnVars == <<kwText, kwResult, kwPc, rankQuery, rankChunks, rankMax,
            rankResult, rankPc, chunkText, chunkSize, chunkResult, chunkPc,
            topText, topResult, topPc, sumContent, sumMax, sumSent, sumPc,
            ctor, hook, store, analysis>>

appVars == <<ctor, hook, store, analysis>>

topVars == <<topText, topResult, topPc>>

sumVars == <<sumContent, sumMax, sumSent, sumPc>>

pureVars == <<kwText, kwResult, kwPc, rankQuery, rankChunks, rankMax,
              rankResult, rankPc, chunkText, chunkSize, chunkResult, chunkPc,
              topVars, sumVars>>

svcVars == <<kind, document, chatHistory, engine, isInitialized, initPromise,
             calls, started, lastOp, exchanges, sinceClear, side, loads>>

vars == <<svcVars, fnVars>>

(***************************************************************************)
(* Bounds.                                                                 *)
(***************************************************************************)
\* generateResponse calls in one behaviour of Spec
MaxCalls == 2
\* generateResponse calls in one behaviour of SpecHistory
MaxHistoryCalls == 6
MaxKwTokens == 3
MaxQueryWords == 2
MaxDocChunks == 3
MaxTextLen == 7
MaxChunkSize == 4
\* calls of the model loader in one behaviour
MaxLoads == 2
\* characters in a text handed to the parse of extractKeyTopics
MaxTopicsLen == 5
\* how far the length of a summarized document is from maxContentLength
MaxOver == 30
\* sendMessage calls of the hook in one behaviour
MaxSends == 2
\* deltas one generation hands to the hook
MaxDeltas == 1

\* document-store operations started in one run
MaxStoreOps == 3

\* documents ingested in one run
MaxStoreDocs == 2

(***************************************************************************)
(* JavaScript string primitives.                                           *)
(***************************************************************************)
Min(a, b) == IF a <= b THEN a ELSE b

Max(a, b) == IF a >= b THEN a ELSE b

UpperChars ==
    <<"A", "B", "C", "D", "E", "F", "G", "H", "I", "J", "K", "L", "M",
      "N", "O", "P", "Q", "R", "S", "T", "U", "V", "W", "X", "Y", "Z">>

LowerChars ==
    <<"a", "b", "c", "d", "e", "f", "g", "h", "i", "j", "k", "l", "m",
      "n", "o", "p", "q", "r", "s", "t", "u", "v", "w", "x", "y", "z">>

\* String.prototype.toLowerCase, one character
LowerChar(c) ==
    IF \E i \in 1..Len(UpperChars) : UpperChars[i] = c
    THEN LowerChars[CHOOSE i \in 1..Len(UpperChars) : UpperChars[i] = c]
    ELSE c

\* String.prototype.toLowerCase
ToLowerCase(s) == [i \in 1..Len(s) |-> LowerChar(s[i])]

\* the regular expression class \s, on the characters the model uses
IsSpace(c) == c \in {" ", "\n", "\t", "\r"}

\* the character class that the replace in extractKeywords removes
\* ("U+0060" is the backquote)
PunctChars ==
    {".", ",", "/", "#", "!", "$", "%", "^", "&", "*", ";", ":", "{", "}",
     "=", "-", "_", "U+0060", "~", "(", ")"}

\* text.replace(<the punctuation class>, "")
StripPunct(s) == SelectSeq(s, LAMBDA c : c \notin PunctChars)

RECURSIVE SplitWsFrom(_, _, _, _)
SplitWsFrom(s, i, cur, acc) ==
    IF i > Len(s) THEN Append(acc, cur)
    ELSE IF IsSpace(s[i])
         THEN IF i > 1 /\ IsSpace(s[i - 1])
              THEN SplitWsFrom(s, i + 1, cur, acc)
              ELSE SplitWsFrom(s, i + 1, <<>>, Append(acc, cur))
         ELSE SplitWsFrom(s, i + 1, Append(cur, s[i]), acc)

\* s.split(/\s+/): a leading or trailing separator yields an empty string
SplitWs(s) == SplitWsFrom(s, 1, <<>>, <<>>)

\* haystack.includes(needle)
Includes(hay, needle) ==
    \E i \in 0..(Len(hay) - Len(needle)) :
        \A j \in 1..Len(needle) : hay[i + j] = needle[j]

\* array.slice(0, n) for n >= 0
SliceFront(a, n) == SubSeq(a, 1, Min(n, Len(a)))

\* array.slice(-n) for n > 0
SliceBack(a, n) == SubSeq(a, Max(1, Len(a) - n + 1), Len(a))

RECURSIVE JoinWith(_, _)
\* array.join(sep)
JoinWith(a, sep) ==
    IF Len(a) = 0 THEN <<>>
    ELSE IF Len(a) = 1 THEN a[1]
    ELSE a[1] \o sep \o JoinWith(Tail(a), sep)

RECURSIVE Concat(_)
\* the concatenation of a sequence of strings
Concat(a) == IF Len(a) = 0 THEN <<>> ELSE a[1] \o Concat(Tail(a))

(***************************************************************************)
(* extractKeywords (identical in both services).                           *)
(***************************************************************************)
\* The stopwords array.  A letter outside ASCII is written as its code point
\* ("U+015F" is one character, s with cedilla).
Stopwords ==
  { <<"b","i","r">>, <<"v","e">>, <<"v","e","y","a">>, <<"d","a">>,
    <<"d","e">>, <<"b","u">>, <<"U+015F","u">>, <<"o">>, <<"i","U+00E7","i","n">>,
    <<"i","l","e">>, <<"g","i","b","i">>, <<"k","a","d","a","r">>,
    <<"m","i">>, <<"m","U+0131">>, <<"m","u">>, <<"m","U+00FC">>, <<"n","e">>,
    <<"n","a","s","U+0131","l">>, <<"n","e","d","e","n">>,
    <<"h","a","n","g","i">>, <<"k","i","m">>, <<"k","i","m","e">>,
    <<"n","e","r","e","d","e">>, <<"n","e"," ","z","a","m","a","n">>,
    <<"a","c","a","b","a">>, <<"b","e","l","k","i">>, <<"e","v","e","t">>,
    <<"h","a","y","U+0131","r">>, <<"t","a","m","a","m">>,
    <<"d","e","U+011F","i","l">>, <<"v","a","r">>, <<"y","o","k">> }

\* mutant: the text is not lowercased
ExtractKeywords_NoLower(text) ==
    SelectSeq(SplitWs(StripPunct(text)),
              LAMBDA word : Len(word) > 3 /\ word \notin Stopwords)

ExtractKeywords(text) ==
    LET words == SplitWs(StripPunct(ToLowerCase(text)))
    IN  SelectSeq(words, LAMBDA word : Len(word) > 3 /\ word \notin Stopwords)

(***************************************************************************)
(* findRelevantChunks (identical in both services).                        *)
(***************************************************************************)
RECURSIVE ScoreFrom(_, _, _)
\* keywords.reduce((acc, keyword) => acc + (includes ? 1 : 0), 0)
ScoreFrom(chunk, keywords, acc) ==
    IF Len(keywords) = 0 THEN acc
    ELSE ScoreFrom(chunk, Tail(keywords),
                   acc + (IF Includes(ToLowerCase(chunk),
                                      ToLowerCase(keywords[1]))
                          THEN 1 ELSE 0))

Score(chunk, keywords) == ScoreFrom(chunk, keywords, 0)

\* this.document.chunks.map((chunk, index) => ({ chunk, score, index }))
ScoredChunks(chunks, keywords) ==
    [i \in 1..Len(chunks) |->
        [chunk |-> chunks[i], score |-> Score(chunks[i], keywords),
         index |-> i - 1]]

\* mutant: ascending by score
CompareScored_Ascending(a, b) ==
    IF b.score # a.score THEN a.score - b.score ELSE a.index - b.index

\* the comparator handed to sort
CompareScored(a, b) ==
    IF b.score # a.score THEN b.score - a.score ELSE a.index - b.index

RECURSIVE InsertScored(_, _)
InsertScored(x, sorted) ==
    IF Len(sorted) = 0 THEN <<x>>
    ELSE IF CompareScored(x, sorted[1]) < 0 THEN <<x>> \o sorted
    ELSE <<sorted[1]>> \o InsertScored(x, Tail(sorted))

RECURSIVE SortScored(_)
\* Array.prototype.sort with CompareScored, a strict total order on the
\* items (indexes are distinct), so the result does not depend on the engine
SortScored(items) ==
    IF Len(items) = 0 THEN <<>>
    ELSE InsertScored(items[1], SortScored(Tail(items)))

\* mutant: the fallback forgets to slice
FindRelevantChunks_FallbackAll(chunks, query, maxChunks) ==
    IF Len(chunks) = 0 THEN <<>>
    ELSE LET keywords == ExtractKeywords(query)
         IN  IF Len(keywords) = 0 THEN chunks
             ELSE LET sorted == SortScored(ScoredChunks(chunks, keywords))
                      top == SliceFront(sorted, maxChunks)
                  IN  [i \in 1..Len(top) |-> top[i].chunk]

\* findRelevantChunks for a bound document with the given chunks
FindRelevantChunks(chunks, query, maxChunks) ==
    IF Len(chunks) = 0 THEN <<>>
    ELSE LET keywords == ExtractKeywords(query)
         IN  IF Len(keywords) = 0 THEN SliceFront(chunks, maxChunks)
             ELSE LET sorted == SortScored(ScoredChunks(chunks, keywords))
                      top == SliceFront(sorted, maxChunks)
                  IN  [i \in 1..Len(top) |-> top[i].chunk]

(***************************************************************************)
(* chunkDocument (document-utils.ts).                                      *)
(***************************************************************************)
\* the end of the maximal run of whitespace that starts at position i
\* (i - 1 when s[i] is no whitespace)
RECURSIVE SpaceRunEnd(_, _)
SpaceRunEnd(s, i) ==
    IF i <= Len(s) /\ IsSpace(s[i]) THEN SpaceRunEnd(s, i + 1) ELSE i - 1

RECURSIVE SplitParagraphsFrom(_, _, _, _)
SplitParagraphsFrom(s, i, start, acc) ==
    IF i > Len(s) THEN Append(acc, SubSeq(s, start, Len(s)))
    ELSE IF s[i] = "\n"
         THEN LET j == SpaceRunEnd(s, i + 1)
                  closers == {k \in (i + 1)..j : s[k] = "\n"}
              IN  IF closers = {}
                  THEN SplitParagraphsFrom(s, i + 1, start, acc)
                  ELSE LET k == CHOOSE x \in closers :
                                    \A y \in closers : y <= x
                       IN  SplitParagraphsFrom(s, k + 1, k + 1,
                               Append(acc, SubSeq(s, start, i - 1)))
         ELSE SplitParagraphsFrom(s, i + 1, start, acc)

\* content.split(/\n\s*\n/): the leftmost match at a line feed, \s* greedy,
\* so a match runs to the last line feed of the whitespace run it starts
SplitParagraphs(s) == SplitParagraphsFrom(s, 1, 1, <<>>)

\* mutant: a chunk that is flushed during word packing is not pushed
PackWord_DropFlushed(st, word, size) ==
    IF Len(st.cur \o <<" ">> \o word) <= size
    THEN [st EXCEPT !.cur = st.cur \o (IF st.cur # <<>> THEN <<" ">> ELSE <<>>)
                                   \o word]
    ELSE [chunks |-> st.chunks, cur |-> word]

\* one turn of the loop over the words of a long paragraph;
\* st = [chunks, cur] are the variables chunks and currentChunk
PackWord(st, word, size) ==
    IF Len(st.cur \o <<" ">> \o word) <= size
    THEN [st EXCEPT !.cur = st.cur \o (IF st.cur # <<>> THEN <<" ">> ELSE <<>>)
                                   \o word]
    ELSE [chunks |-> IF st.cur # <<>> THEN Append(st.chunks, st.cur)
                     ELSE st.chunks,
          cur |-> word]

RECURSIVE PackWords(_, _, _)
PackWords(st, words, size) ==
    IF Len(words) = 0 THEN st
    ELSE PackWords(PackWord(st, words[1], size), Tail(words), size)

\* mutant: the merge test leaves the blank line out of the length
AddParagraph_SeparatorUncounted(st, paragraph, size) ==
    IF Len(paragraph) > size
    THEN PackWords(st, SplitWs(paragraph), size)
    ELSE IF Len(st.cur \o paragraph) <= size
    THEN [st EXCEPT !.cur = st.cur
                             \o (IF st.cur # <<>> THEN <<"\n", "\n">> ELSE <<>>)
                             \o paragraph]
    ELSE [chunks |-> IF st.cur # <<>> THEN Append(st.chunks, st.cur)
                     ELSE st.chunks,
          cur |-> paragraph]

\* one turn of the loop over the paragraphs
AddParagraph(st, paragraph, size) ==
    IF Len(paragraph) > size
    THEN PackWords(st, SplitWs(paragraph), size)
    ELSE IF Len(st.cur \o <<"\n", "\n">> \o paragraph) <= size
    THEN [st EXCEPT !.cur = st.cur
                             \o (IF st.cur # <<>> THEN <<"\n", "\n">> ELSE <<>>)
                             \o paragraph]
    ELSE [chunks |-> IF st.cur # <<>> THEN Append(st.chunks, st.cur)
                     ELSE st.chunks,
          cur |-> paragraph]

RECURSIVE AddParagraphs(_, _, _)
AddParagraphs(st, paragraphs, size) ==
    IF Len(paragraphs) = 0 THEN st
    ELSE AddParagraphs(AddParagraph(st, paragraphs[1], size),
                       Tail(paragraphs), size)

ChunkDocument(content, size) ==
    IF Len(content) < size THEN <<content>>
    ELSE LET st == AddParagraphs([chunks |-> <<>>, cur |-> <<>>],
                                 SplitParagraphs(content), size)
         IN  IF st.cur # <<>> THEN Append(st.chunks, st.cur) ELSE st.chunks

\* the whitespace-separated words of a text
WordsOf(s) == SelectSeq(SplitWs(s), LAMBDA w : w # <<>>)

RECURSIVE WordsOfAll(_)
\* the words read off a sequence of chunks, in order
WordsOfAll(chunks) ==
    IF Len(chunks) = 0 THEN <<>>
    ELSE WordsOf(chunks[1]) \o WordsOfAll(Tail(chunks))

(***************************************************************************)
(* The backend services: WebLLMService and OpenAIService.                  *)
(***************************************************************************)
HistoryLimit == 10
RecentHistory == 6
TopChunks == 3

\* this.document = null
NullDocument == [id |-> 0, name |-> <<>>, chunks |-> <<>>, content |-> <<>>]

DocA ==
    [id |-> 1, name |-> <<"a">>,
     chunks |-> << <<"e","v","e","t"," ","t","h","e">>,
                   <<"A","p","p","l","e"," ","b","a","n","a","n","a">>,
                   <<"p","e","a","r">>,
                   <<"a","p","p","l","e">> >>,
     content |-> <<"e","v","e","t"," ","t","h","e">>]

DocB ==
    [id |-> 2, name |-> <<"b">>, chunks |-> << <<"p","e","a","r">> >>,
     content |-> <<"p","e","a","r">>]

Docs == {DocA, DocB}

\* the content of the last message handed to generateResponse
Questions == { <<"a","p","p","l","e">>, <<"t","h","e">> }

CallIds == {1, 2}

\* What a stream delivers, item by item: a delta with content, a delta
\* with no content, or (remote) a data line that is no JSON.
Frag(c) == [t |-> "delta", content |-> c]
EmptyDelta == [t |-> "delta", content |-> <<>>]
\* a data line whose payload does not parse as JSON, or parses to a value
\* without choices[0] (both end in the catch block)
BadLine == [t |-> "garbage", content |-> <<>>]

Hel == <<"H","e","l">>
Lo == <<"l","o">>

Scripts ==
    { <<Frag(Hel), Frag(Lo)>>, <<EmptyDelta, Frag(Lo)>>,
      <<Frag(Hel), BadLine, Frag(Lo)>>, <<>> }

HistoryScripts == { <<Frag(Hel)>> }

\* the scripts a backend of the given kind can meet: the local engine
\* yields objects, never unparsed lines
ScriptsOf(k, all) ==
    IF k = "local"
    THEN {sc \in all : \A i \in 1..Len(sc) : sc[i].t = "delta"}
    ELSE all

\* A call slot: where the call stands (pc), the question, the request that
\* is waiting for the transport (sent, with the history it was built from),
\* what the stream is to deliver (script) and has yet to deliver (wire), the
\* response so far, the arguments onUpdate was called with (deltas), the
\* number of requests made and how the call ended.  rebound is a history
\* field: setDocument ran while the call was in flight.
IdleCall ==
    [pc |-> "idle", question |-> <<>>, sent |-> <<>>, histAtStart |-> <<>>,
     script |-> <<>>, wire |-> <<>>, response |-> <<>>, deltas |-> <<>>,
     requests |-> 0, outcome |-> "none", rebound |-> FALSE]

\* the summarizeDocument or extractKeyTopics call: op is "summarize" or
\* "topics", sent the document content put into the prompt, result the
\* value returned (the summary as a one-element sequence, or the topics)
IdleSide ==
    [op |-> "none", pc |-> "idle", sent |-> <<>>, requests |-> 0,
     outcome |-> "none", result |-> <<>>]

\* lastOp: the name of the step, its call slot, for setDocument the id of
\* the document passed, and for setDocument and generateResponse the id of
\* the document that was bound when it ran and whether chatHistory held
\* anything then
NoOp == [op |-> "none", call |-> 0, arg |-> 0, idBefore |-> 0,
         hadHistory |-> FALSE]

Op(name, c) == [NoOp EXCEPT !.op = name, !.call = c]

SvcInit ==
    /\ kind \in {"local", "remote"}
    /\ document = NullDocument
    /\ chatHistory = <<>>
    /\ engine = "null"
    /\ isInitialized = FALSE
    /\ initPromise = "null"
    /\ calls = [c \in CallIds |-> IdleCall]
    /\ started = 0
    /\ lastOp = NoOp
    /\ exchanges = <<>>
    /\ sinceClear = <<>>
    /\ side = IdleSide
    /\ loads = 0

\* the service variables while a pure-function harness runs
SvcIdle ==
    /\ kind = "none"
    /\ document = NullDocument
    /\ chatHistory = <<>>
    /\ engine = "null"
    /\ isInitialized = FALSE
    /\ initPromise = "null"
    /\ calls = [c \in CallIds |-> IdleCall]
    /\ started = 0
    /\ lastOp = NoOp
    /\ exchanges = <<>>
    /\ sinceClear = <<>>
    /\ side = IdleSide
    /\ loads = 0

----------------------------------------------------------------------------
\* mutant: init does not look at initPromise and loads again
InitCall_IgnorePromise ==
    /\ kind = "local"
    /\ loads < MaxLoads
    /\ initPromise' = "pending"
    /\ loads' = loads + 1
    /\ lastOp' = Op("init", 0)
    /\ UNCHANGED <<kind, document, chatHistory, engine, isInitialized, calls,
                   started, exchanges, sinceClear, fnVars, side>>

\* WebLLMService.init, up to the call of CreateMLCEngine
InitCall ==
    /\ kind = "local"
    /\ initPromise = "null"
    /\ loads < MaxLoads
    /\ initPromise' = "pending"
    /\ loads' = loads + 1
    /\ lastOp' = Op("init", 0)
    /\ UNCHANGED <<kind, document, chatHistory, engine, isInitialized, calls,
                   started, exchanges, sinceClear, fnVars, side>>

\* WebLLMService.init with initPromise set: the promise is returned as is
InitAgain ==
    /\ kind = "local"
    /\ initPromise # "null"
    /\ lastOp' = Op("initAgain", 0)
    /\ UNCHANGED <<kind, document, chatHistory, engine, isInitialized,
                   initPromise, calls, started, exchanges, sinceClear, fnVars, side, loads>>

\* CreateMLCEngine resolved
InitLoaded ==
    /\ kind = "local"
    /\ initPromise = "pending"
    /\ engine' = "engine"
    /\ isInitialized' = TRUE
    /\ initPromise' = "resolved"
    /\ lastOp' = Op("initLoaded", 0)
    /\ UNCHANGED <<kind, document, chatHistory, calls, started, exchanges,
                   sinceClear, fnVars, side, loads>>

\* CreateMLCEngine rejected
InitLoadFailed ==
    /\ kind = "local"
    /\ initPromise = "pending"
    /\ initPromise' = "rejected"
    /\ lastOp' = Op("initLoadFailed", 0)
    /\ UNCHANGED <<kind, document, chatHistory, engine, isInitialized, calls,
                   started, exchanges, sinceClear, fnVars, side, loads>>

\* mutant: dispose resets the instance whether or not an engine is loaded
Dispose_ResetAlways ==
    /\ kind = "local"
    /\ lastOp' = [Op("dispose", 0) EXCEPT !.hadHistory = chatHistory # <<>>]
    /\ engine' = "null"
    /\ isInitialized' = FALSE
    /\ initPromise' = "null"
    /\ chatHistory' = <<>>
    /\ sinceClear' = <<>>
    /\ UNCHANGED <<kind, document, calls, started, exchanges, fnVars, side,
                   loads>>

\* WebLLMService.dispose
Dispose ==
    /\ kind = "local"
    /\ lastOp' = [Op("dispose", 0) EXCEPT !.hadHistory = chatHistory # <<>>]
    /\ IF engine # "null"
       THEN /\ engine' = "null"
            /\ isInitialized' = FALSE
            /\ initPromise' = "null"
            /\ chatHistory' = <<>>
            /\ sinceClear' = <<>>
       ELSE UNCHANGED <<engine, isInitialized, initPromise, chatHistory,
                        sinceClear>>
    /\ UNCHANGED <<kind, document, calls, started, exchanges, fnVars, side, loads>>

\* the calls in flight are marked as begun before this setDocument
MarkRebound(cs) ==
    [c \in DOMAIN cs |->
        IF cs[c].pc \in {"requested", "streaming", "errorBody"}
        THEN [cs[c] EXCEPT !.rebound = TRUE] ELSE cs[c]]

\* mutant: history survives a rebind to a document of the same id
SetDocument_KeepHistoryOnSameId(d) ==
    /\ document' = d
    /\ chatHistory' = IF d.id = document.id THEN chatHistory ELSE <<>>
    /\ exchanges' = <<>>
    /\ sinceClear' = <<>>
    /\ lastOp' = [Op("setDocument", 0) EXCEPT !.arg = d.id,
                     !.idBefore = document.id,
                     !.hadHistory = chatHistory # <<>>]
    /\ calls' = MarkRebound(calls)
    /\ UNCHANGED <<kind, engine, isInitialized, initPromise, started,
                   fnVars, side, loads>>

\* setDocument (both services)
SetDocument(d) ==
    /\ document' = d
    /\ chatHistory' = <<>>
    /\ exchanges' = <<>>
    /\ sinceClear' = <<>>
    /\ lastOp' = [Op("setDocument", 0) EXCEPT !.arg = d.id,
                     !.idBefore = document.id,
                     !.hadHistory = chatHistory # <<>>]
    /\ calls' = MarkRebound(calls)
    /\ UNCHANGED <<kind, engine, isInitialized, initPromise, started,
                   fnVars, side, loads>>

----------------------------------------------------------------------------
\* The content of a message: a fixed template and the texts put into it.
\* A history entry holds its text as it is (template "raw").
Content(template, context, text) ==
    [template |-> template, context |-> context, text |-> text]

Raw(text) == Content("raw", <<>>, text)

\* createSystemPrompt: a fixed template around the document name
SystemPrompt(doc) ==
    IF doc = NullDocument THEN Content("help", <<>>, <<>>)
    ELSE Content("assistant", <<>>, doc.name)

SystemMessage(doc) == [role |-> "system", content |-> SystemPrompt(doc)]

\* the user message: a fixed template around context and question
UserContextMessage(doc, q) ==
    [role |-> "user",
     content |-> Content("context",
                         JoinWith(FindRelevantChunks(doc.chunks, q,
                                                     TopChunks),
                                  <<"\n", "\n">>),
                         q)]

\* WebLLMService: baseMessages, then the recent history pushed after them
LocalMessages(doc, history, q) ==
    <<SystemMessage(doc), UserContextMessage(doc, q)>>
        \o (IF Len(history) > 0 THEN SliceBack(history, RecentHistory)
            ELSE <<>>)

\* OpenAIService: apiMessages
RemoteMessages(doc, history, q) ==
    <<SystemMessage(doc)>>
        \o (IF Len(history) > 0 THEN SliceBack(history, RecentHistory)
            ELSE <<>>)
        \o <<UserContextMessage(doc, q)>>

\* mutant: the document is not checked
GeneratePrecondition_NoDocumentCheck(k, ready, doc) ==
    IF k = "local" /\ ~ready THEN "ModelNotLoaded" ELSE "ok"

\* the checks generateResponse makes before its try block
GeneratePrecondition(k, ready, doc) ==
    IF k = "local" /\ ~ready THEN "ModelNotLoaded"
    ELSE IF doc = NullDocument THEN "DocumentNotBound"
    ELSE "ok"

\* mutant: the oldest entries are kept
PushExchange_KeepOldest(history, q, r) ==
    LET pushed == history \o << [role |-> "user", content |-> Raw(q)],
                               [role |-> "assistant", content |-> Raw(r)] >>
    IN  IF Len(pushed) > HistoryLimit THEN SliceFront(pushed, HistoryLimit)
        ELSE pushed

\* mutant: the response is pushed before the question
PushExchange_AssistantFirst(history, q, r) ==
    LET pushed == history \o << [role |-> "assistant", content |-> Raw(r)],
                               [role |-> "user", content |-> Raw(q)] >>
    IN  IF Len(pushed) > HistoryLimit THEN SliceBack(pushed, HistoryLimit)
        ELSE pushed

\* chatHistory.push(user, assistant), then the cut to the last 10
PushExchange(history, q, r) ==
    LET pushed == history \o << [role |-> "user", content |-> Raw(q)],
                               [role |-> "assistant", content |-> Raw(r)] >>
    IN  IF Len(pushed) > HistoryLimit THEN SliceBack(pushed, HistoryLimit)
        ELSE pushed

\* generateResponse, from the call to its first await (or its throw)
GenerateResponse(c, q, cap) ==
    /\ calls[c].pc \in {"idle", "returned", "failed"}
    /\ started < cap
    /\ started' = started + 1
    /\ lastOp' = [Op("generateResponse", c) EXCEPT
                     !.idBefore = document.id,
                     !.hadHistory = chatHistory # <<>>]
    /\ LET pre == GeneratePrecondition(kind,
                      isInitialized /\ engine # "null", document)
       IN  IF pre # "ok"
           THEN calls' = [calls EXCEPT ![c] =
                    [IdleCall EXCEPT !.pc = "failed", !.question = q,
                                     !.histAtStart = chatHistory,
                                     !.outcome = pre]]
           ELSE calls' = [calls EXCEPT ![c] =
                    [IdleCall EXCEPT
                        !.pc = "requested", !.question = q,
                        !.histAtStart = chatHistory,
                        !.sent = IF kind = "local"
                                 THEN LocalMessages(document, chatHistory, q)
                                 ELSE RemoteMessages(document, chatHistory, q),
                        !.requests = 1]]
    /\ UNCHANGED <<kind, document, chatHistory, engine, isInitialized,
                   initPromise, exchanges, sinceClear, fnVars, side, loads>>

\* mutant: a failing call records the question and the partial response
Fail_PushPartial(c, underlying) ==
    /\ calls' = [calls EXCEPT ![c].pc = "failed", ![c].wire = <<>>,
                    ![c].sent = <<>>, ![c].histAtStart = <<>>,
                    ![c].outcome = IF kind = "local" THEN "GenerationFailed"
                                   ELSE underlying]
    /\ chatHistory' = PushExchange(chatHistory, calls[c].question,
                                   calls[c].response)
    /\ UNCHANGED <<kind, document, engine, isInitialized,
                   initPromise, started, exchanges, sinceClear, fnVars, side,
                   loads>>

\* the call ends in its catch block: the local service throws a generic
\* error, the remote one rethrows what it caught
Fail(c, underlying) ==
    /\ calls' = [calls EXCEPT ![c].pc = "failed", ![c].wire = <<>>,
                    ![c].sent = <<>>, ![c].histAtStart = <<>>,
                    ![c].outcome = IF kind = "local" THEN "GenerationFailed"
                                   ELSE underlying]
    /\ UNCHANGED <<kind, document, chatHistory, engine, isInitialized,
                   initPromise, started, exchanges, sinceClear, fnVars, side, loads>>

\* the stream ended: the exchange is pushed and the response returned
Complete(c) ==
    /\ chatHistory' = PushExchange(chatHistory, calls[c].question,
                                   calls[c].response)
    /\ exchanges' = Append(exchanges,
                           <<calls[c].question, calls[c].response>>)
    /\ sinceClear' = Append(sinceClear,
                            <<calls[c].question, calls[c].response>>)
    /\ calls' = [calls EXCEPT ![c].pc = "returned", ![c].outcome = "returned"]
    /\ UNCHANGED <<kind, document, engine, isInitialized, initPromise,
                   started, fnVars, side, loads>>

----------------------------------------------------------------------------
\* local: engine.chat.completions.create resolved with a stream
CreateResolved(c, sc) ==
    /\ kind = "local"
    /\ calls[c].pc = "requested"
    /\ calls' = [calls EXCEPT ![c].pc = "streaming", ![c].script = sc,
                              ![c].wire = sc, ![c].sent = <<>>,
                              ![c].histAtStart = <<>>]
    /\ lastOp' = Op("createResolved", c)
    /\ UNCHANGED <<kind, document, chatHistory, engine, isInitialized,
                   initPromise, started, exchanges, sinceClear, fnVars, side, loads>>

\* local: engine.chat.completions.create rejected
CreateRejected(c) ==
    /\ kind = "local"
    /\ calls[c].pc = "requested"
    /\ lastOp' = Op("createRejected", c)
    /\ Fail(c, "EngineError")

\* local: one turn of for await (const chunk of stream)
StreamChunk(c) ==
    /\ kind = "local"
    /\ calls[c].pc = "streaming"
    /\ Len(calls[c].wire) > 0
    /\ LET content == calls[c].wire[1].content
       IN  calls' = [calls EXCEPT
                        ![c].wire = Tail(@),
                        ![c].response = @ \o content,
                        ![c].deltas = Append(@, content)]
    /\ lastOp' = Op("streamChunk", c)
    /\ UNCHANGED <<kind, document, chatHistory, engine, isInitialized,
                   initPromise, started, exchanges, sinceClear, fnVars, side, loads>>

\* local: the stream throws
StreamFailed(c) ==
    /\ kind = "local"
    /\ calls[c].pc = "streaming"
    /\ lastOp' = Op("streamFailed", c)
    /\ Fail(c, "EngineError")

\* local: the stream is exhausted
StreamDone(c) ==
    /\ kind = "local"
    /\ calls[c].pc = "streaming"
    /\ Len(calls[c].wire) = 0
    /\ lastOp' = Op("streamDone", c)
    /\ Complete(c)

----------------------------------------------------------------------------
\* The bytes of the response body, as tokens: the marker "data: ", a
\* payload (the JSON of a delta, text that is no JSON, or "[DONE]") and the
\* line feed.  A read hands over any number of tokens, so that a line can
\* arrive split between two reads.
Tok(k, content) == [k |-> k, content |-> content]
Marker == Tok("marker", <<>>)
LineFeed == Tok("nl", <<>>)
DonePayload == Tok("done", <<>>)

PayloadOf(item) ==
    IF item.t = "delta" THEN Tok("json", item.content)
    ELSE Tok("garbage", <<>>)

RECURSIVE EncodeItems(_)
EncodeItems(sc) ==
    IF Len(sc) = 0 THEN <<>>
    ELSE <<Marker, PayloadOf(sc[1]), LineFeed>> \o EncodeItems(Tail(sc))

\* the body for a script: one data line per item, closed by data: [DONE]
Encode(sc) == EncodeItems(sc) \o <<Marker, DonePayload, LineFeed>>

RECURSIVE SplitLinesFrom(_, _, _, _)
SplitLinesFrom(toks, i, cur, acc) ==
    IF i > Len(toks) THEN Append(acc, cur)
    ELSE IF toks[i] = LineFeed
         THEN SplitLinesFrom(toks, i + 1, <<>>, Append(acc, cur))
         ELSE SplitLinesFrom(toks, i + 1, Append(cur, toks[i]), acc)

\* chunk.split("\n")
SplitLines(toks) == SplitLinesFrom(toks, 1, <<>>, <<>>)

\* the filter on the lines: blank lines and data: [DONE] are dropped
KeptLine(line) == line # <<>> /\ line # <<Marker, DonePayload>>

\* the body of the loop over the lines: the content of the delta the line
\* carries, empty when the line has no marker, its JSON does not parse or
\* the delta has no content
LineContent(line) ==
    IF line[1] # Marker THEN <<>>
    ELSE LET data == Tail(line)
         IN  IF Len(data) = 1 /\ data[1].k = "json" THEN data[1].content
             ELSE <<>>

\* mutant: the first line that does not parse ends the decoding of the read
ReadContents_StopAtMalformed(value) ==
    LET lines == SelectSeq(SplitLines(value), KeptLine)
        bad == {i \in 1..Len(lines) :
                   ~(Len(lines[i]) = 2 /\ lines[i][1] = Marker
                     /\ lines[i][2].k = "json")}
        upto == IF bad = {} THEN Len(lines)
                ELSE (CHOOSE i \in bad : \A j \in bad : i <= j) - 1
        contents == [i \in 1..upto |-> LineContent(lines[i])]
    IN  SelectSeq(contents, LAMBDA x : x # <<>>)

\* the contents one read delivers, in order
ReadContents(value) ==
    LET lines == SelectSeq(SplitLines(value), KeptLine)
        contents == [i \in 1..Len(lines) |-> LineContent(lines[i])]
    IN  SelectSeq(contents, LAMBDA x : x # <<>>)

\* remote: fetch resolved
FetchResolved(c, status, sc) ==
    /\ kind = "remote"
    /\ calls[c].pc = "requested"
    /\ lastOp' = Op("fetchResolved", c)
    /\ CASE status = "ok" ->
              /\ calls' = [calls EXCEPT ![c].pc = "streaming",
                                        ![c].script = sc,
                                        ![c].wire = Encode(sc),
                                        ![c].sent = <<>>,
                                        ![c].histAtStart = <<>>]
              /\ UNCHANGED <<kind, document, chatHistory, engine,
                             isInitialized, initPromise, started, exchanges,
                             sinceClear, fnVars, side, loads>>
         [] status = "httpError" ->
              /\ calls' = [calls EXCEPT ![c].pc = "errorBody",
                                        ![c].sent = <<>>,
                                        ![c].histAtStart = <<>>]
              /\ UNCHANGED <<kind, document, chatHistory, engine,
                             isInitialized, initPromise, started, exchanges,
                             sinceClear, fnVars, side, loads>>
         [] status = "noBody" -> Fail(c, "StreamNotRead")

\* remote: fetch rejected
FetchRejected(c) ==
    /\ kind = "remote"
    /\ calls[c].pc = "requested"
    /\ lastOp' = Op("fetchRejected", c)
    /\ Fail(c, "NetworkError")

\* remote: response.json() of a response that is not ok settled
ErrorBodyRead(c) ==
    /\ kind = "remote"
    /\ calls[c].pc = "errorBody"
    /\ lastOp' = Op("errorBodyRead", c)
    /\ Fail(c, "ApiError")

\* remote: reader.read() resolved with the next n tokens of the body
ReaderRead(c, n) ==
    /\ kind = "remote"
    /\ calls[c].pc = "streaming"
    /\ n >= 1
    /\ n <= Len(calls[c].wire)
    /\ LET contents == ReadContents(SubSeq(calls[c].wire, 1, n))
       IN  calls' = [calls EXCEPT
                        ![c].wire = SubSeq(@, n + 1, Len(@)),
                        ![c].response = @ \o Concat(contents),
                        ![c].deltas = @ \o contents]
    /\ lastOp' = Op("readerRead", c)
    /\ UNCHANGED <<kind, document, chatHistory, engine, isInitialized,
                   initPromise, started, exchanges, sinceClear, fnVars, side, loads>>

\* remote: reader.read() rejected
ReaderFailed(c) ==
    /\ kind = "remote"
    /\ calls[c].pc = "streaming"
    /\ lastOp' = Op("readerFailed", c)
    /\ Fail(c, "StreamError")

\* remote: reader.read() resolved with done
ReaderDone(c) ==
    /\ kind = "remote"
    /\ calls[c].pc = "streaming"
    /\ Len(calls[c].wire) = 0
    /\ lastOp' = Op("readerDone", c)
    /\ Complete(c)


(***************************************************************************)
(* summarizeDocument and extractKeyTopics.                                 *)
(***************************************************************************)
\* maxContentLength of summarizeDocument
LocalSummaryMax == 8000
RemoteSummaryMax == 12000
\* maxContentLength of extractKeyTopics
LocalTopicsMax == 6000
RemoteTopicsMax == 10000

Elision == <<"\n", ".", ".", ".", "\n">>

\* content.substring(from) for from >= 0
SubstringFrom(s, from) == SubSeq(s, Min(from, Len(s)) + 1, Len(s))

\* mutant: the tail starts one character late
SummaryContent_ShortTail(content, max) ==
    IF Len(content) > max
    THEN SliceFront(content, max \div 2) \o Elision
            \o SubstringFrom(content, Len(content) - (max \div 2) + 1)
    ELSE content

\* the content summarizeDocument puts into its prompt
SummaryContent(content, max) ==
    IF Len(content) > max
    THEN SliceFront(content, max \div 2) \o Elision
            \o SubstringFrom(content, Len(content) - (max \div 2))
    ELSE content

\* the content extractKeyTopics puts into its prompt
TopicsContent(content, max) ==
    IF Len(content) > max THEN SliceFront(content, max) ELSE content

RECURSIVE SplitOnFrom(_, _, _, _)
SplitOnFrom(s, ch, start, i) ==
    IF i > Len(s) THEN << SubSeq(s, start, Len(s)) >>
    ELSE IF s[i] = ch
         THEN << SubSeq(s, start, i - 1) >> \o SplitOnFrom(s, ch, i + 1, i + 1)
         ELSE SplitOnFrom(s, ch, start, i + 1)

\* s.split(ch) for a one-character separator
SplitOn(s, ch) == SplitOnFrom(s, ch, 1, 1)

RECURSIVE TrimStart(_)
TrimStart(s) ==
    IF Len(s) > 0 /\ IsSpace(s[1]) THEN TrimStart(Tail(s)) ELSE s

RECURSIVE TrimEnd(_)
TrimEnd(s) ==
    IF Len(s) > 0 /\ IsSpace(s[Len(s)])
    THEN TrimEnd(SubSeq(s, 1, Len(s) - 1)) ELSE s

\* line.trim()
Trim(s) == TrimEnd(TrimStart(s))

StartsWithDash(line) == Len(line) > 0 /\ line[1] = "-"

\* line.replace(/^-\s*/, "")
StripMarker(line) ==
    IF StartsWithDash(line) THEN TrimStart(Tail(line)) ELSE line

\* the callback handed to filter: the line is kept when the value of
\* (line && !line.startsWith("-")) ? line.replace(/^-\s*/, "") : line
\* is truthy, i.e. a string that is not empty
TopicKept(line) ==
    LET value == IF line # <<>> /\ ~StartsWithDash(line)
                 THEN StripMarker(line) ELSE line
    IN  value # <<>>

\* topicsText.split("\n").map(trim).filter(...)
ParseTopics(text) ==
    LET lines == SplitOn(text, "\n")
        trimmed == [i \in 1..Len(lines) |-> Trim(lines[i])]
    IN  SelectSeq(trimmed, TopicKept)

\* mutant: only the document is checked
SidePrecondition_NoModelCheck(k, ready, doc) ==
    IF doc = NullDocument THEN "DocumentNotBound" ELSE "ok"

\* the checks summarizeDocument and extractKeyTopics make before their try
\* block
SidePrecondition(k, ready, doc) ==
    IF k = "local" /\ ~ready THEN "ModelNotLoaded"
    ELSE IF doc = NullDocument THEN "DocumentNotBound"
    ELSE "ok"

\* a summarizeDocument or extractKeyTopics call, from the call to its first
\* await (or its throw)
StartSide(op, sent) ==
    /\ side.pc \in {"idle", "returned", "failed"}
    /\ LET pre == SidePrecondition(kind, isInitialized /\ engine # "null",
                                   document)
       IN  IF pre # "ok"
           THEN side' = [IdleSide EXCEPT !.op = op, !.pc = "failed",
                                         !.outcome = pre]
           ELSE side' = [IdleSide EXCEPT !.op = op, !.pc = "requested",
                                         !.sent = sent, !.requests = 1]
    /\ lastOp' = Op(op, 0)
    /\ UNCHANGED <<kind, document, chatHistory, engine, isInitialized,
                   initPromise, calls, started, exchanges, sinceClear, loads,
                   fnVars>>

SummarizeDocument ==
    StartSide("summarize",
              SummaryContent(document.content,
                             IF kind = "local" THEN LocalSummaryMax
                             ELSE RemoteSummaryMax))

ExtractKeyTopics ==
    StartSide("topics",
              TopicsContent(document.content,
                            IF kind = "local" THEN LocalTopicsMax
                            ELSE RemoteTopicsMax))

\* the model answered with text: summarizeDocument returns it,
\* extractKeyTopics returns its topics
SideResolved(text) ==
    /\ side.pc = "requested"
    /\ side' = [side EXCEPT !.pc = "returned", !.outcome = "returned",
                            !.result = IF side.op = "summarize"
                                       THEN << text >>
                                       ELSE ParseTopics(text)]
    /\ lastOp' = Op("sideResolved", 0)
    /\ UNCHANGED <<kind, document, chatHistory, engine, isInitialized,
                   initPromise, calls, started, exchanges, sinceClear, loads,
                   fnVars>>

\* the engine call, the fetch or a response that is not ok: the local
\* service throws its own error, the remote one rethrows what it caught
SideRejected ==
    /\ side.pc = "requested"
    /\ side' = [side EXCEPT !.pc = "failed",
                            !.outcome = IF kind = "local"
                                        THEN (IF side.op = "summarize"
                                              THEN "SummaryFailed"
                                              ELSE "TopicsFailed")
                                        ELSE "UnderlyingError"]
    /\ lastOp' = Op("sideRejected", 0)
    /\ UNCHANGED <<kind, document, chatHistory, engine, isInitialized,
                   initPromise, calls, started, exchanges, sinceClear, loads,
                   fnVars>>

\* the texts a model answers summarizeDocument and extractKeyTopics with
SideTexts ==
    { <<"-", " ", "a", "\n", "b">>, <<"a">>, <<>> }

(***************************************************************************)
(* Inputs of the harnesses.                                                *)
(***************************************************************************)
\* all sequences over S of length at most n
SeqsUpTo(S, n) == UNION {[1..k -> S] : k \in 0..n}

\* the pieces a text handed to extractKeywords is made of
KwTokens ==
    { <<"a","p","p","l","e">>, <<"E","v","e","t">>, <<"t","h","e">>,
      <<" ">>, <<".">>, <<"B","a","-","n","a">>, <<"\n">> }

KwTexts == {Concat(t) : t \in SeqsUpTo(KwTokens, MaxKwTokens)}

\* the words a query handed to findRelevantChunks is made of
QueryWords ==
    { <<"a","p","p","l","e">>, <<"B","a","n","a","n","a","!">>,
      <<"e","v","e","t">>, <<"t","h","e">> }

RankQueries == {JoinWith(w, <<" ">>) : w \in SeqsUpTo(QueryWords, MaxQueryWords)}

ChunkPool ==
    { <<"A","p","p","l","e"," ","b","a","n","a","n","a">>,
      <<"a","p","p","l","e">>,
      <<"e","v","e","t"," ","t","h","e">> }

RankDocs == SeqsUpTo(ChunkPool, MaxDocChunks)

\* the values of maxChunks (3 is the one generateResponse passes)
MaxChunksArgs == {0, 1, 2, 3}

ChunkAlphabet == {"a", " ", "\n"}

ChunkTexts == SeqsUpTo(ChunkAlphabet, MaxTextLen)

ChunkSizes == 0..MaxChunkSize

(***************************************************************************)
(* The harness of extractKeywords.                                         *)
(***************************************************************************)
KwInit ==
    /\ kwText \in KwTexts
    /\ kwResult = <<>>
    /\ kwPc = "start"

KwIdle == kwText = <<>> /\ kwResult = <<>> /\ kwPc = "off"

CallExtractKeywords ==
    /\ kwPc = "start"
    /\ kwResult' = ExtractKeywords(kwText)
    /\ kwPc' = "done"
    /\ UNCHANGED <<kwText, rankQuery, rankChunks, rankMax, rankResult, rankPc,
                   chunkText, chunkSize, chunkResult, chunkPc>>
    /\ UNCHANGED <<svcVars, topVars, sumVars, appVars>>

(***************************************************************************)
(* The harness of findRelevantChunks.                                      *)
(***************************************************************************)
RankInit ==
    /\ rankQuery \in RankQueries
    /\ rankChunks \in RankDocs
    /\ rankMax \in MaxChunksArgs
    /\ rankResult = <<>>
    /\ rankPc = "start"

RankIdle ==
    /\ rankQuery = <<>> /\ rankChunks = <<>> /\ rankMax = 0
    /\ rankResult = <<>> /\ rankPc = "off"

CallFindRelevantChunks ==
    /\ rankPc = "start"
    /\ rankResult' = FindRelevantChunks(rankChunks, rankQuery, rankMax)
    /\ rankPc' = "done"
    /\ UNCHANGED <<kwText, kwResult, kwPc, rankQuery, rankChunks, rankMax,
                   chunkText, chunkSize, chunkResult, chunkPc>>
    /\ UNCHANGED <<svcVars, topVars, sumVars, appVars>>

(***************************************************************************)
(* The harness of chunkDocument.                                           *)
(***************************************************************************)
ChunkInit ==
    /\ chunkText \in ChunkTexts
    /\ chunkSize \in ChunkSizes
    /\ chunkResult = <<>>
    /\ chunkPc = "start"

ChunkIdle ==
    /\ chunkText = <<>> /\ chunkSize = 0 /\ chunkResult = <<>>
    /\ chunkPc = "off"

CallChunkDocument ==
    /\ chunkPc = "start"
    /\ chunkResult' = ChunkDocument(chunkText, chunkSize)
    /\ chunkPc' = "done"
    /\ UNCHANGED <<kwText, kwResult, kwPc, rankQuery, rankChunks, rankMax,
                   rankResult, rankPc, chunkText, chunkSize>>
    /\ UNCHANGED <<svcVars, topVars, sumVars, appVars>>

(***************************************************************************)
(* The harness of the parse of extractKeyTopics.                           *)
(***************************************************************************)
TopicsAlphabet == {"-", " ", "a", "\n"}

TopicsTexts == SeqsUpTo(TopicsAlphabet, MaxTopicsLen)

TopicsInit ==
    /\ topText \in TopicsTexts
    /\ topResult = <<>>
    /\ topPc = "start"

TopicsIdle == topText = <<>> /\ topResult = <<>> /\ topPc = "off"

CallParseTopics ==
    /\ topPc = "start"
    /\ topResult' = ParseTopics(topText)
    /\ topPc' = "done"
    /\ UNCHANGED <<topText, kwText, kwResult, kwPc, rankQuery, rankChunks,
                   rankMax, rankResult, rankPc, chunkText, chunkSize,
                   chunkResult, chunkPc>>
    /\ UNCHANGED <<svcVars, sumVars, appVars>>

(***************************************************************************)
(* The harness of the truncation of summarizeDocument.                     *)
(***************************************************************************)
SummaryAlphabet == <<"a", "b", "c", "d", "e", "f", "g">>

\* a document content of n characters, the character at i set by i
ContentOfLength(n) == [i \in 1..n |-> SummaryAlphabet[(i % 7) + 1]]

\* the lengths around a maximum, and two short ones
SummaryLengths(max) == {0, 1} \cup ((max - MaxOver)..(max + MaxOver))

SummaryInit ==
    /\ sumMax \in {LocalSummaryMax, RemoteSummaryMax}
    /\ sumContent \in {ContentOfLength(n) : n \in SummaryLengths(sumMax)}
    /\ sumSent = <<>>
    /\ sumPc = "start"

SummaryIdle ==
    sumContent = <<>> /\ sumMax = 0 /\ sumSent = <<>> /\ sumPc = "off"

CallSummaryContent ==
    /\ sumPc = "start"
    /\ sumSent' = SummaryContent(sumContent, sumMax)
    /\ sumPc' = "done"
    /\ UNCHANGED <<sumContent, sumMax, kwText, kwResult, kwPc, rankQuery,
                   rankChunks, rankMax, rankResult, rankPc, chunkText,
                   chunkSize, chunkResult, chunkPc>>
    /\ UNCHANGED <<svcVars, topVars, appVars>>

(***************************************************************************)
(* The construction of an OpenAIService and the request it then sends.     *)
(* Temperatures are in tenths, as the settings form steps them.            *)
(***************************************************************************)
\* max="1" with step="0.1" of the temperature input
TemperatureSteps == 10
\* config.temperature || 0.7
DefaultTemperature == 7
\* a config without temperature
NoTemperature == 0 - 1

ApiKeys == {"", "key1", "key2"}
ModelNames == {"", "gpt-4", "gpt-3.5-turbo"}

Configs ==
    [apiKey : ApiKeys, model : ModelNames,
     temperature : (0..TemperatureSteps) \cup {NoTemperature}]

NoFields == [apiKey |-> "", model |-> "", temperature |-> NoTemperature]

\* value || fallback for a number: 0 and undefined are falsy
NumberOr(value, fallback) ==
    IF value = 0 \/ value = NoTemperature THEN fallback ELSE value

\* value || fallback for a string: "" is falsy
StringOr(value, fallback) == IF value = "" THEN fallback ELSE value

\* the fields the constructor sets
ConstructOpenAI(config) ==
    [apiKey |-> config.apiKey,
     model |-> StringOr(config.model, "gpt-3.5-turbo"),
     temperature |-> NumberOr(config.temperature, DefaultTemperature)]

\* the request of generateResponse, without its messages
RequestBody(fields) ==
    [authorization |-> fields.apiKey, model |-> fields.model,
     temperature |-> fields.temperature, stream |-> TRUE]

CtorIdle ==
    ctor = [pc |-> "off", config |-> NoFields, fields |-> NoFields,
            body |-> RequestBody(NoFields)]

CtorInit ==
    \E config \in Configs :
        ctor = [pc |-> "start", config |-> config, fields |-> NoFields,
                body |-> RequestBody(NoFields)]

\* new OpenAIService(config)
NewOpenAIService ==
    /\ ctor.pc = "start"
    /\ ctor' = [ctor EXCEPT !.pc = "constructed",
                            !.fields = ConstructOpenAI(ctor.config)]
    /\ UNCHANGED <<svcVars, pureVars, hook, store, analysis>>

\* the fetch of generateResponse
SendRequest ==
    /\ ctor.pc = "constructed"
    /\ ctor' = [ctor EXCEPT !.pc = "sent", !.body = RequestBody(ctor.fields)]
    /\ UNCHANGED <<svcVars, pureVars, hook, store, analysis>>

(***************************************************************************)
(* The chat hook useWebLLM.  Its two services are kept as what the hook    *)
(* can tell of them: whether the ref is set, the fields of the remote      *)
(* service and the id of the document bound (0 for none).  A generation    *)
(* hands over some deltas and then resolves or rejects.                    *)
(***************************************************************************)
SendIds == 1..MaxSends

HookSettings ==
    [provider : {"local", "openai"}, apiKey : {"key1", "key2"},
     model : {"gpt-4"}, temperature : {DefaultTemperature}]

DocIds == {1, 2}

NoService == [exists |-> FALSE, fields |-> NoFields, doc |-> 0]

IdleSend ==
    [pc |-> "idle", assistantId |-> 0, deltas |-> 0, stale |-> FALSE]

\* hook.last names the step taken last: its name and its sendMessage call
HookOp(name, s) == [op |-> name, send |-> s]

\* the state after the hook has mounted with the default settings: the
\* local service exists, the remote one does not
HookInit ==
    hook = [settings |-> [provider |-> "local", apiKey |-> "key1",
                          model |-> "gpt-4",
                          temperature |-> DefaultTemperature],
            effectPending |-> FALSE,
            web |-> [NoService EXCEPT !.exists = TRUE],
            open |-> NoService,
            messages |-> <<>>,
            isGenerating |-> FALSE,
            loadingError |-> FALSE,
            sends |-> [s \in SendIds |-> IdleSend],
            nextId |-> 1,
            lastDoc |-> 0,
            last |-> HookOp("none", 0)]

HookIdle ==
    hook = [settings |-> [provider |-> "none", apiKey |-> "",
                          model |-> "", temperature |-> NoTemperature],
            effectPending |-> FALSE,
            web |-> NoService,
            open |-> NoService,
            messages |-> <<>>,
            isGenerating |-> FALSE,
            loadingError |-> FALSE,
            sends |-> [s \in SendIds |-> IdleSend],
            nextId |-> 1,
            lastDoc |-> 0,
            last |-> HookOp("none", 0)]

HookFrame == UNCHANGED <<svcVars, pureVars, ctor, store, analysis>>

\* getActiveService()
ActiveService(h) ==
    IF h.settings.provider = "local" THEN h.web ELSE h.open

\* updateApiSettings: the new settings are rendered, the effect that
\* initialises the service of the provider is still to run
UpdateApiSettings(settings) ==
    /\ settings # hook.settings
    /\ hook' = [hook EXCEPT !.settings = settings,
                            !.effectPending = TRUE,
                            !.last = HookOp("updateApiSettings", 0)]
    /\ HookFrame

\* initOpenAI: the service is kept when its key and model are the settings'
InitOpenAI(h) ==
    IF /\ h.open.exists
       /\ h.open.fields.apiKey = h.settings.apiKey
       /\ h.open.fields.model = h.settings.model
    THEN h.open
    ELSE [exists |-> TRUE, fields |-> ConstructOpenAI(h.settings), doc |-> 0]

\* initWebLLM, as far as the ref goes
InitWebLLM(h) == IF h.web.exists THEN h.web ELSE [NoService EXCEPT !.exists = TRUE]

\* the effect on [apiSettings, initWebLLM, initOpenAI]
RunInitEffect ==
    /\ hook.effectPending
    /\ hook' = [hook EXCEPT
                  !.effectPending = FALSE,
                  !.web = IF hook.settings.provider = "local"
                          THEN InitWebLLM(hook) ELSE @,
                  !.open = IF hook.settings.provider = "local"
                           THEN @ ELSE InitOpenAI(hook),
                  !.last = HookOp("initEffect", 0)]
    /\ HookFrame

\* the sends a setDocument finds in flight are marked (history field)
MarkStale(sends) ==
    [s \in DOMAIN sends |->
        IF sends[s].pc = "running" THEN [sends[s] EXCEPT !.stale = TRUE]
        ELSE sends[s]]

\* mutant: setDocument keeps the messages
HookSetDocument_KeepMessages(d) ==
    /\ hook' = [hook EXCEPT
                  !.web = IF hook.settings.provider = "local" /\ @.exists
                          THEN [@ EXCEPT !.doc = d] ELSE @,
                  !.open = IF hook.settings.provider # "local" /\ @.exists
                           THEN [@ EXCEPT !.doc = d] ELSE @,
                  !.sends = MarkStale(@),
                  !.lastDoc = d,
                  !.last = HookOp("setDocument", 0)]
    /\ HookFrame

\* setDocument of the hook
HookSetDocument(d) ==
    /\ hook' = [hook EXCEPT
                  !.web = IF hook.settings.provider = "local" /\ @.exists
                          THEN [@ EXCEPT !.doc = d] ELSE @,
                  !.open = IF hook.settings.provider # "local" /\ @.exists
                           THEN [@ EXCEPT !.doc = d] ELSE @,
                  !.messages = <<>>,
                  !.sends = MarkStale(@),
                  !.lastDoc = d,
                  !.last = HookOp("setDocument", 0)]
    /\ HookFrame

Message(id, role, content) == [id |-> id, role |-> role, content |-> content]

\* sendMessage with content that is blank: nothing happens
SendBlank ==
    /\ hook' = [hook EXCEPT !.last = HookOp("sendBlank", 0)]
    /\ HookFrame

\* mutant: isGenerating is not set
SendMessage_NoFlag(s) ==
    /\ hook.sends[s].pc = "idle"
    /\ \A t \in SendIds : t < s => hook.sends[t].pc # "idle"
    /\ IF ~ActiveService(hook).exists
       THEN hook' = [hook EXCEPT !.loadingError = TRUE,
                                 !.sends[s].pc = "refused",
                                 !.last = HookOp("sendMessage", s)]
       ELSE hook' = [hook EXCEPT
                  !.messages = @ \o << Message(hook.nextId, "user", <<"q">>),
                                       Message(hook.nextId + 1, "assistant",
                                               <<>>) >>,
                  !.nextId = @ + 2,
                  !.sends[s] = [pc |-> "running",
                                assistantId |-> hook.nextId + 1,
                                deltas |-> 0, stale |-> FALSE],
                  !.last = HookOp("sendMessage", s)]
    /\ HookFrame

\* sendMessage with content that is not blank, up to the await of
\* generateResponse
SendMessage(s) ==
    /\ hook.sends[s].pc = "idle"
    /\ \A t \in SendIds : t < s => hook.sends[t].pc # "idle"
    /\ IF ~ActiveService(hook).exists
       THEN hook' = [hook EXCEPT !.loadingError = TRUE,
                                 !.sends[s].pc = "refused",
                                 !.last = HookOp("sendMessage", s)]
       ELSE hook' = [hook EXCEPT
                  !.messages = @ \o << Message(hook.nextId, "user", <<"q">>),
                                       Message(hook.nextId + 1, "assistant",
                                               <<>>) >>,
                  !.nextId = @ + 2,
                  !.isGenerating = TRUE,
                  !.sends[s] = [pc |-> "running",
                                assistantId |-> hook.nextId + 1,
                                deltas |-> 0, stale |-> FALSE],
                  !.last = HookOp("sendMessage", s)]
    /\ HookFrame

\* the updater of the onUpdate callback: the message with the id, when it
\* is in the list, gets the chunk appended to its content
AppendChunk(messages, id, chunk) ==
    [i \in 1..Len(messages) |->
        IF messages[i].id = id
        THEN [messages[i] EXCEPT !.content = Append(@, chunk)]
        ELSE messages[i]]

\* the updater of the catch block: the message with the id, when it is in
\* the list, gets the error text as its content
SetErrorText(messages, id) ==
    [i \in 1..Len(messages) |->
        IF messages[i].id = id
        THEN [messages[i] EXCEPT !.content = <<"sorry">>]
        ELSE messages[i]]

\* the onUpdate callback of a running generation
HookDelta(s) ==
    /\ hook.sends[s].pc = "running"
    /\ hook.sends[s].deltas < MaxDeltas
    /\ hook' = [hook EXCEPT
                   !.messages = AppendChunk(@, hook.sends[s].assistantId,
                                            "chunk"),
                   !.sends[s].deltas = @ + 1,
                   !.last = HookOp("delta", s)]
    /\ HookFrame

\* generateResponse resolved: the finally block
HookResolved(s) ==
    /\ hook.sends[s].pc = "running"
    /\ hook' = [hook EXCEPT !.isGenerating = FALSE,
                            !.sends[s].pc = "resolved",
                            !.last = HookOp("resolved", s)]
    /\ HookFrame

\* generateResponse rejected: the catch block, then the finally block
HookRejected(s) ==
    /\ hook.sends[s].pc = "running"
    /\ hook' = [hook EXCEPT
                   !.messages = SetErrorText(@, hook.sends[s].assistantId),
                   !.isGenerating = FALSE,
                   !.sends[s].pc = "rejected",
                   !.last = HookOp("rejected", s)]
    /\ HookFrame

\* ------------------------------------------------------------------
\* The document store (IndexedDB object store "documents") and the
\* localStorage key lastProcessedDocumentId.  Every await of the store
\* functions waits for an IndexedDB request; the continuation runs in the
\* microtask checkpoint of the request's completion event, before any
\* other request of the page completes, so a request and the code up to
\* the next await form one step.  Operations in flight interleave at
\* these steps.

StoreOps == 1..MaxStoreOps

StoreDocIds == 1..MaxStoreDocs

IdleStoreOp == [kind |-> "none", pc |-> "idle", id |-> 0]

StoreFrame == UNCHANGED <<svcVars, pureVars, ctor, hook, analysis>>

\* an empty store, no key in localStorage, no operation started
StoreInit ==
    store = [docs |-> {}, lastProcessedDocumentId |-> 0, nextId |-> 1,
             ops |-> [o \in StoreOps |-> IdleStoreOp]]

StoreIdle ==
    store = [docs |-> {}, lastProcessedDocumentId |-> 0, nextId |-> 0,
             ops |-> [o \in StoreOps |-> IdleStoreOp]]

\* operations take the slots in order
StoreSlotFree(o) ==
    /\ store.ops[o].pc = "idle"
    /\ \A p \in StoreOps : p < o => store.ops[p].pc # "idle"

\* extractDocumentContent(file) / extractContentFromUrl(url): the call
\* starts reading the file or fetching the URL
StartIngestion(o) ==
    /\ StoreSlotFree(o)
    /\ \E fn \in {"extractDocumentContent", "extractContentFromUrl"} :
          store' = [store EXCEPT !.ops[o] =
                       [kind |-> fn, pc |-> "extracting", id |-> 0]]
    /\ StoreFrame

\* the extraction throws (unsupported format, failed fetch, empty content):
\* the catch block returns success false
IngestionRejected(o) ==
    /\ store.ops[o].pc = "extracting"
    /\ store' = [store EXCEPT !.ops[o].pc = "failed"]
    /\ StoreFrame

\* the content is there: the document gets its id from generateDocumentId
\* and saveDocument is awaited
IngestionExtracted(o) ==
    /\ store.ops[o].pc = "extracting"
    /\ store.nextId <= MaxStoreDocs
    /\ store' = [store EXCEPT !.ops[o].pc = "saving",
                              !.ops[o].id = store.nextId,
                              !.nextId = @ + 1]
    /\ StoreFrame

\* saveDocument throws: nothing was written
SaveRejected(o) ==
    /\ store.ops[o].pc = "saving"
    /\ store' = [store EXCEPT !.ops[o].pc = "failed"]
    /\ StoreFrame

\* saveLastProcessedDocumentId(id): localStorage.setItem, whose exception
\* is caught and logged
SaveLastProcessedDocumentId(last, id, stored) == IF stored THEN id ELSE last

\* saveDocument's db.put completes and saveLastProcessedDocumentId runs
SaveResolved(o) ==
    /\ store.ops[o].pc = "saving"
    /\ \E stored \in BOOLEAN :
          store' = [store EXCEPT
                       !.ops[o].pc = "done",
                       !.docs = @ \cup {store.ops[o].id},
                       !.lastProcessedDocumentId =
                           SaveLastProcessedDocumentId(@, store.ops[o].id,
                                                       stored)]
    /\ StoreFrame

\* deleteDocument(id): the call opens the database and awaits db.get
StartDelete(o, id) ==
    /\ StoreSlotFree(o)
    /\ store' = [store EXCEPT !.ops[o] =
                     [kind |-> "deleteDocument", pc |-> "lookup", id |-> id]]
    /\ StoreFrame

\* db.get completes: a missing document ends the call, a present one is
\* deleted next
DeleteLookup(o) ==
    /\ store.ops[o].pc = "lookup"
    /\ store' = [store EXCEPT !.ops[o].pc =
                     IF store.ops[o].id \in store.docs THEN "deleting"
                                                        ELSE "done"]
    /\ StoreFrame

\* mutant: a delete leaves the key alone
LastAfterDelete_Keep(last, id) == last

\* the key is removed when it names the deleted document
LastAfterDelete(last, id) == IF last = id THEN 0 ELSE last

\* db.delete completes; the key is compared with the id
DeleteResolved(o) ==
    /\ store.ops[o].pc = "deleting"
    /\ store' = [store EXCEPT
                     !.ops[o].pc = "listing",
                     !.docs = @ \ {store.ops[o].id},
                     !.lastProcessedDocumentId =
                         LastAfterDelete(@, store.ops[o].id)]
    /\ StoreFrame

\* the closing getAllDocuments() completes
DeleteListed(o) ==
    /\ store.ops[o].pc = "listing"
    /\ store' = [store EXCEPT !.ops[o].pc = "done"]
    /\ StoreFrame

\* a request of deleteDocument fails: the error is rethrown
DeleteRejected(o) ==
    /\ store.ops[o].pc \in {"lookup", "deleting"}
    /\ store' = [store EXCEPT !.ops[o].pc = "failed"]
    /\ StoreFrame

\* clearAllDocuments(): the call opens the database and awaits db.clear
StartClear(o) ==
    /\ StoreSlotFree(o)
    /\ store' = [store EXCEPT !.ops[o] =
                     [kind |-> "clearAllDocuments", pc |-> "clearing",
                      id |-> 0]]
    /\ StoreFrame

\* db.clear completes and the key is removed
ClearResolved(o) ==
    /\ store.ops[o].pc = "clearing"
    /\ store' = [store EXCEPT !.ops[o].pc = "done",
                              !.docs = {},
                              !.lastProcessedDocumentId = 0]
    /\ StoreFrame

ClearRejected(o) ==
    /\ store.ops[o].pc = "clearing"
    /\ store' = [store EXCEPT !.ops[o].pc = "failed"]
    /\ StoreFrame

\* ------------------------------------------------------------------
\* The DocumentAnalysis component.  A summary or a list of topics is
\* recorded as the id of the document it was made from, 0 for none.

AnalysisDocs == {1, 2, 3}

AnalysisTabs == {"summary", "topics", "search"}

IdleAnalysisCall == [pc |-> "idle", doc |-> 0]

AnalysisFrame == UNCHANGED <<svcVars, pureVars, ctor, hook, store>>

\* generateSummary(): nothing when a summary is being generated; else the
\* flag is set and llmService.summarizeDocument() is awaited
GenerateSummary(a) ==
    IF a.isGeneratingSummary THEN a
    ELSE [a EXCEPT !.isGeneratingSummary = TRUE,
                   !.summaryCall = [pc |-> "running", doc |-> a.document]]

\* generateKeyTopics()
GenerateKeyTopics(a) ==
    IF a.isGeneratingTopics THEN a
    ELSE [a EXCEPT !.isGeneratingTopics = TRUE,
                   !.topicsCall = [pc |-> "running", doc |-> a.document]]

\* the effect on activeTab
TabEffect(a) ==
    IF a.activeTab = "summary" /\ a.summary = 0 /\ ~a.isGeneratingSummary
    THEN GenerateSummary(a)
    ELSE IF a.activeTab = "topics" /\ a.keyTopics = 0
                                    /\ ~a.isGeneratingTopics
         THEN GenerateKeyTopics(a)
         ELSE a

\* the effect on document.id
ClearCache(a) == [a EXCEPT !.summary = 0, !.keyTopics = 0]

\* the component has mounted on document 1 with the summary tab: both
\* effects have run, the summary is being generated
AnalysisInit ==
    analysis = ClearCache(TabEffect(
                   [document |-> 1, activeTab |-> "summary",
                    summary |-> 0, keyTopics |-> 0,
                    isGeneratingSummary |-> FALSE,
                    isGeneratingTopics |-> FALSE,
                    summaryCall |-> IdleAnalysisCall,
                    topicsCall |-> IdleAnalysisCall,
                    last |-> "mount"]))

AnalysisIdle ==
    analysis = [document |-> 0, activeTab |-> "none",
                summary |-> 0, keyTopics |-> 0,
                isGeneratingSummary |-> FALSE,
                isGeneratingTopics |-> FALSE,
                summaryCall |-> IdleAnalysisCall,
                topicsCall |-> IdleAnalysisCall,
                last |-> "none"]

\* the parent renders the component with another document
ChangeDocument(d) ==
    /\ d # analysis.document
    /\ analysis' = [ClearCache([analysis EXCEPT !.document = d])
                        EXCEPT !.last = "document"]
    /\ AnalysisFrame

\* the user picks a tab
SelectTab(t) ==
    /\ t # analysis.activeTab
    /\ analysis' = [TabEffect([analysis EXCEPT !.activeTab = t])
                        EXCEPT !.last = "tab"]
    /\ AnalysisFrame

\* summarizeDocument() resolves: setSummary(result), then the flag is
\* reset
SummaryResolved ==
    /\ analysis.summaryCall.pc = "running"
    /\ analysis' = [analysis EXCEPT !.summary = analysis.summaryCall.doc,
                                    !.isGeneratingSummary = FALSE,
                                    !.summaryCall = IdleAnalysisCall,
                                    !.last = "summary"]
    /\ AnalysisFrame

\* summarizeDocument() rejects: a toast, then the flag is reset
SummaryRejected ==
    /\ analysis.summaryCall.pc = "running"
    /\ analysis' = [analysis EXCEPT !.isGeneratingSummary = FALSE,
                                    !.summaryCall = IdleAnalysisCall,
                                    !.last = "summaryError"]
    /\ AnalysisFrame

\* extractKeyTopics() resolves: setKeyTopics(topics)
TopicsResolved ==
    /\ analysis.topicsCall.pc = "running"
    /\ analysis' = [analysis EXCEPT !.keyTopics = analysis.topicsCall.doc,
                                    !.isGeneratingTopics = FALSE,
                                    !.topicsCall = IdleAnalysisCall,
                                    !.last = "topics"]
    /\ AnalysisFrame

TopicsRejected ==
    /\ analysis.topicsCall.pc = "running"
    /\ analysis' = [analysis EXCEPT !.isGeneratingTopics = FALSE,
                                    !.topicsCall = IdleAnalysisCall,
                                    !.last = "topicsError"]
    /\ AnalysisFrame

AppIdle == CtorIdle /\ HookIdle /\ StoreIdle /\ AnalysisIdle

FnIdle ==
    KwIdle /\ RankIdle /\ ChunkIdle /\ TopicsIdle /\ SummaryIdle /\ AppIdle

(***************************************************************************)
(* Spec: one backend, one generateResponse call at a time, every way a     *)
(* call can go.                                                            *)
(***************************************************************************)
Init == SvcInit /\ FnIdle

Next ==
    \/ InitCall
    \/ InitAgain
    \/ InitLoaded
    \/ InitLoadFailed
    \/ Dispose
    \/ \E d \in Docs : SetDocument(d)
    \/ \E q \in Questions : GenerateResponse(1, q, MaxCalls)
    \/ \E sc \in ScriptsOf(kind, Scripts) : CreateResolved(1, sc)
    \/ CreateRejected(1)
    \/ StreamChunk(1)
    \/ StreamFailed(1)
    \/ StreamDone(1)
    \/ \E sc \in ScriptsOf(kind, Scripts) :
          \E status \in {"ok", "httpError", "noBody"} :
             FetchResolved(1, status, sc)
    \/ FetchRejected(1)
    \/ ErrorBodyRead(1)
    \/ \E n \in 1..Len(calls[1].wire) : ReaderRead(1, n)
    \/ ReaderFailed(1)
    \/ ReaderDone(1)

Spec == Init /\ [][Next]_vars

(***************************************************************************)
(* SpecHistory: one backend, many exchanges one after the other, each      *)
(* stream delivered whole.                                                 *)
(***************************************************************************)
NextHistory ==
    \/ InitCall
    \/ InitLoaded
    \/ Dispose
    \/ \E d \in Docs : SetDocument(d)
    \/ \E q \in Questions : GenerateResponse(1, q, MaxHistoryCalls)
    \/ \E sc \in HistoryScripts : CreateResolved(1, sc)
    \/ StreamChunk(1)
    \/ StreamDone(1)
    \/ \E sc \in HistoryScripts : FetchResolved(1, "ok", sc)
    \/ ReaderRead(1, Len(calls[1].wire))
    \/ ReaderDone(1)

SpecHistory == Init /\ [][NextHistory]_vars

InitKeywords ==
    SvcIdle /\ KwInit /\ RankIdle /\ ChunkIdle /\ TopicsIdle /\ SummaryIdle
    /\ AppIdle

SpecKeywords == InitKeywords /\ [][CallExtractKeywords]_vars

InitRank ==
    SvcIdle /\ KwIdle /\ RankInit /\ ChunkIdle /\ TopicsIdle /\ SummaryIdle
    /\ AppIdle

SpecRank == InitRank /\ [][CallFindRelevantChunks]_vars

InitChunk ==
    SvcIdle /\ KwIdle /\ RankIdle /\ ChunkInit /\ TopicsIdle /\ SummaryIdle
    /\ AppIdle

SpecChunk == InitChunk /\ [][CallChunkDocument]_vars

(***************************************************************************)
(* SpecConcurrent: one backend and two callers; nothing in either service  *)
(* keeps generateResponse from being called while a call is in flight.     *)
(***************************************************************************)
NextConcurrent ==
    \/ InitCall
    \/ InitLoaded
    \/ \E d \in Docs : SetDocument(d)
    \/ \E c \in CallIds :
          \/ \E q \in Questions : GenerateResponse(c, q, MaxHistoryCalls)
          \/ \E sc \in HistoryScripts : CreateResolved(c, sc)
          \/ StreamChunk(c)
          \/ StreamDone(c)
          \/ \E sc \in HistoryScripts : FetchResolved(c, "ok", sc)
          \/ ReaderRead(c, Len(calls[c].wire))
          \/ ReaderDone(c)

SpecConcurrent == Init /\ [][NextConcurrent]_vars

InitTopics ==
    SvcIdle /\ KwIdle /\ RankIdle /\ ChunkIdle /\ TopicsInit /\ SummaryIdle
    /\ AppIdle

SpecTopics == InitTopics /\ [][CallParseTopics]_vars

InitSummary ==
    SvcIdle /\ KwIdle /\ RankIdle /\ ChunkIdle /\ TopicsIdle /\ SummaryInit
    /\ AppIdle

SpecSummary == InitSummary /\ [][CallSummaryContent]_vars

InitConstruct ==
    /\ SvcIdle
    /\ KwIdle /\ RankIdle /\ ChunkIdle /\ TopicsIdle /\ SummaryIdle
    /\ CtorInit /\ HookIdle /\ StoreIdle /\ AnalysisIdle

InitHook ==
    /\ SvcIdle
    /\ KwIdle /\ RankIdle /\ ChunkIdle /\ TopicsIdle /\ SummaryIdle
    /\ CtorIdle /\ HookInit /\ StoreIdle /\ AnalysisIdle

HookSettle ==
    \E s \in SendIds : HookDelta(s) \/ HookResolved(s) \/ HookRejected(s)

NextHook ==
    \/ \E settings \in HookSettings : UpdateApiSettings(settings)
    \/ RunInitEffect
    \/ \E d \in DocIds : HookSetDocument(d)
    \/ SendBlank
    \/ \E s \in SendIds : SendMessage(s)
    \/ \E s \in SendIds : HookDelta(s)
    \/ \E s \in SendIds : HookResolved(s)
    \/ \E s \in SendIds : HookRejected(s)

\* a generation the hook awaits settles, and the continuation then runs
SpecHook == InitHook /\ [][NextHook]_vars /\ WF_vars(HookSettle)

InitStore ==
    /\ SvcIdle
    /\ KwIdle /\ RankIdle /\ ChunkIdle /\ TopicsIdle /\ SummaryIdle
    /\ CtorIdle /\ HookIdle /\ StoreInit /\ AnalysisIdle

NextStore ==
    \/ \E o \in StoreOps : StartIngestion(o)
    \/ \E o \in StoreOps : IngestionRejected(o)
    \/ \E o \in StoreOps : IngestionExtracted(o)
    \/ \E o \in StoreOps : SaveRejected(o)
    \/ \E o \in StoreOps : SaveResolved(o)
    \/ \E o \in StoreOps, id \in StoreDocIds : StartDelete(o, id)
    \/ \E o \in StoreOps : DeleteLookup(o)
    \/ \E o \in StoreOps : DeleteResolved(o)
    \/ \E o \in StoreOps : DeleteListed(o)
    \/ \E o \in StoreOps : DeleteRejected(o)
    \/ \E o \in StoreOps : StartClear(o)
    \/ \E o \in StoreOps : ClearResolved(o)
    \/ \E o \in StoreOps : ClearRejected(o)

SpecStore == InitStore /\ [][NextStore]_vars

InitAnalysis ==
    /\ SvcIdle
    /\ KwIdle /\ RankIdle /\ ChunkIdle /\ TopicsIdle /\ SummaryIdle
    /\ CtorIdle /\ HookIdle /\ StoreIdle /\ AnalysisInit

NextAnalysis ==
    \/ \E d \in AnalysisDocs : ChangeDocument(d)
    \/ \E t \in AnalysisTabs : SelectTab(t)
    \/ SummaryResolved
    \/ SummaryRejected
    \/ TopicsResolved
    \/ TopicsRejected

SpecAnalysis == InitAnalysis /\ [][NextAnalysis]_vars

NextConstruct == NewOpenAIService \/ SendRequest

SpecConstruct == InitConstruct /\ [][NextConstruct]_vars

(***************************************************************************)
(* SpecSide: one backend with its three operations on the bound document.  *)
(* A generateResponse call is answered in one piece.                       *)
(***************************************************************************)
NextSide ==
    \/ InitCall
    \/ InitLoaded
    \/ InitLoadFailed
    \/ Dispose
    \/ \E d \in Docs : SetDocument(d)
    \/ \E q \in Questions : GenerateResponse(1, q, MaxCalls)
    \/ \E sc \in HistoryScripts : CreateResolved(1, sc)
    \/ StreamChunk(1)
    \/ StreamDone(1)
    \/ \E sc \in HistoryScripts : FetchResolved(1, "ok", sc)
    \/ ReaderRead(1, Len(calls[1].wire))
    \/ ReaderDone(1)
    \/ SummarizeDocument
    \/ ExtractKeyTopics
    \/ \E text \in SideTexts : SideResolved(text)
    \/ SideRejected

SpecSide == Init /\ [][NextSide]_vars

(***************************************************************************)
(* Claims about the backend services.                                      *)
(***************************************************************************)
\* C1: on both backends the request of generateResponse holds the system
\* message, then the last min(6, |history|) history entries in order, then
\* the new user message (context and question) as its last element.
C1_RequestOrder ==
    \A c \in CallIds :
        calls[c].pc = "requested" =>
            LET h == calls[c].histAtStart
                m == Min(RecentHistory, Len(h))
                sent == calls[c].sent
            IN  /\ Len(sent) = m + 2
                /\ sent[1].role = "system"
                /\ \A i \in 1..m : sent[1 + i] = h[Len(h) - m + i]
                /\ sent[m + 2].role = "user"
                /\ sent[m + 2].content.template = "context"
                /\ sent[m + 2].content.text = calls[c].question

\* the pairs as the history entries they are pushed as
RECURSIVE Flatten(_)
Flatten(pairs) ==
    IF Len(pairs) = 0 THEN <<>>
    ELSE << [role |-> "user", content |-> Raw(pairs[1][1])],
            [role |-> "assistant", content |-> Raw(pairs[1][2])] >>
           \o Flatten(Tail(pairs))

C3_SetDocumentClearsHistory ==
    lastOp.op = "setDocument" =>
        /\ document \in Docs
        /\ document.id = lastOp.arg
        /\ chatHistory = <<>>

\* setDocument with the id of the bound document, on a history that held
\* entries
C3_Witness ==
    /\ lastOp.op = "setDocument"
    /\ lastOp.hadHistory
    /\ lastOp.idBefore = lastOp.arg
    /\ document.id = lastOp.arg
    /\ chatHistory = <<>>

Ready == isInitialized /\ engine # "null"

\* what a generateResponse call that found no document bound must look like
C4_FailedFast(c, condition) ==
    /\ calls[c].pc = "failed"
    /\ calls[c].outcome = condition
    /\ calls[c].requests = 0
    /\ calls[c].deltas = <<>>
    /\ chatHistory = calls[c].histAtStart

\* C4 as stated: generateResponse with no document bound fails with the
\* document-not-set condition, whatever the readiness of the local model.
C4_AsStated ==
    \A c \in CallIds :
        (lastOp.op = "generateResponse" /\ lastOp.call = c
             /\ lastOp.idBefore = 0) =>
            C4_FailedFast(c, "DocumentNotBound")

\* C4, amended: generateResponse with no document bound fails at once, with
\* the document-not-set condition on the remote backend and on a ready
\* local backend, with the model-not-loaded condition on a local backend
\* that is not ready; it makes no request, calls onDelta zero times and
\* leaves history unchanged.
C4_NoDocumentFailsFast ==
    \A c \in CallIds :
        (lastOp.op = "generateResponse" /\ lastOp.call = c
             /\ lastOp.idBefore = 0) =>
            C4_FailedFast(c, IF kind = "local" /\ ~Ready
                             THEN "ModelNotLoaded" ELSE "DocumentNotBound")

\* a ready local backend with no document: the call fails with
\* DocumentNotBound
C4_Witness ==
    /\ kind = "local"
    /\ Ready
    /\ lastOp.op = "generateResponse"
    /\ lastOp.idBefore = 0
    /\ calls[lastOp.call].outcome = "DocumentNotBound"
    /\ calls[lastOp.call].requests = 0

\* the stream delivers only deltas with content
C5_OnlyFragments(sc) ==
    \A i \in 1..Len(sc) : sc[i].t = "delta" /\ sc[i].content # <<>>

\* C5: when the stream delivers the non-empty fragments f1..fn and ends,
\* onDelta is called n times, with f1..fn in order, and generateResponse
\* returns their concatenation.
C5_StreamingAccumulation ==
    \A c \in CallIds :
        (calls[c].pc = "returned" /\ C5_OnlyFragments(calls[c].script)) =>
            LET frags == [i \in 1..Len(calls[c].script) |->
                             calls[c].script[i].content]
            IN  /\ calls[c].deltas = frags
                /\ calls[c].response = Concat(frags)

(***************************************************************************)
(* Claims about findRelevantChunks, extractKeywords and chunkDocument.     *)
(***************************************************************************)
Range(f) == {f[i] : i \in DOMAIN f}

\* chunk j comes before chunk i: a higher score, or the same score and a
\* smaller index
C6_Precedes(j, i, scores) ==
    scores[j] > scores[i] \/ (scores[j] = scores[i] /\ j < i)

C6_RankOf(i, scores) ==
    Cardinality({j \in DOMAIN scores : C6_Precedes(j, i, scores)})

\* C6: with at least one keyword in the query, findRelevantChunks returns
\* the first min(maxChunks, |chunks|) chunks of the list ordered by score
\* descending, equal scores by ascending original index; chunks with score 0
\* are returned when there is room.
C6_RankedTopK ==
    (rankPc = "done" /\ Len(ExtractKeywords(rankQuery)) > 0) =>
        LET keywords == ExtractKeywords(rankQuery)
            scores == [i \in 1..Len(rankChunks) |->
                          Score(rankChunks[i], keywords)]
        IN  /\ Len(rankResult) = Min(rankMax, Len(rankChunks))
            /\ \A p \in 1..Len(rankResult) :
                 \E i \in 1..Len(rankChunks) :
                    /\ C6_RankOf(i, scores) = p - 1
                    /\ rankResult[p] = rankChunks[i]

\* query "apple" on ["evet the", "Apple banana", "apple"]: the two chunks of
\* score 1 come back in document order, then the chunk of score 0
C6_Witness ==
    /\ rankPc = "done"
    /\ rankQuery = <<"a","p","p","l","e">>
    /\ rankMax = 3
    /\ rankChunks = << <<"e","v","e","t"," ","t","h","e">>,
                       <<"A","p","p","l","e"," ","b","a","n","a","n","a">>,
                       <<"a","p","p","l","e">> >>
    /\ rankResult = << <<"A","p","p","l","e"," ","b","a","n","a","n","a">>,
                       <<"a","p","p","l","e">>,
                       <<"e","v","e","t"," ","t","h","e">> >>

\* C7: when the query yields no keyword, findRelevantChunks returns the
\* first min(maxChunks, |chunks|) chunks in original order.
C7_FallbackFirstK ==
    (rankPc = "done" /\ ExtractKeywords(rankQuery) = <<>>) =>
        /\ Len(rankResult) = Min(rankMax, Len(rankChunks))
        /\ \A p \in 1..Len(rankResult) : rankResult[p] = rankChunks[p]

\* query "evet the" (a stopword and a short word) on a document whose second
\* chunk is "evet the": the first chunk alone comes back
C7_Witness ==
    /\ rankPc = "done"
    /\ rankQuery = <<"e","v","e","t"," ","t","h","e">>
    /\ rankMax = 1
    /\ rankChunks = << <<"a","p","p","l","e">>,
                       <<"e","v","e","t"," ","t","h","e">> >>
    /\ rankResult = << <<"a","p","p","l","e">> >>

\* C8: the keywords form a set and the score of a chunk is the number of
\* distinct keywords that occur in it: a word repeated in the query counts
\* once.
C8_ScoreCountsDistinctKeywords ==
    rankPc = "done" =>
        LET keywords == ExtractKeywords(rankQuery)
        IN  /\ Cardinality(Range(keywords)) = Len(keywords)
            /\ \A i \in 1..Len(rankChunks) :
                 Score(rankChunks[i], keywords) =
                    Cardinality({k \in Range(keywords) :
                        Includes(ToLowerCase(rankChunks[i]), k)})

\* C9: every word extractKeywords returns is lowercase, holds no stripped
\* punctuation, is longer than 3 characters and is no stopword.
C9_KeywordsFiltered ==
    kwPc = "done" =>
        \A n \in 1..Len(kwResult) :
            LET word == kwResult[n]
            IN  /\ \A i \in 1..Len(word) :
                     /\ word[i] \notin Range(UpperChars)
                     /\ word[i] \notin PunctChars
                     /\ ~IsSpace(word[i])
                /\ Len(word) > 3
                /\ word \notin Stopwords

\* "Ba-na Evet" gives ["bana"]: lowercased, the hyphen stripped, the
\* stopword dropped
C9_Witness ==
    /\ kwPc = "done"
    /\ kwText = <<"B","a","-","n","a"," ","E","v","e","t">>
    /\ kwResult = << <<"b","a","n","a">> >>

\* C10: the words read off the chunks of chunkDocument(text, size), in
\* order, are the words of text: none dropped, duplicated or reordered.
C10_WordsPreserved ==
    chunkPc = "done" => WordsOfAll(chunkResult) = WordsOf(chunkText)

\* "a a\n\naa" with size 2: word packing, then a paragraph, three chunks
C10_Witness ==
    /\ chunkPc = "done"
    /\ chunkText = <<"a"," ","a","\n","\n","a","a">>
    /\ chunkSize = 2
    /\ chunkResult = << <<"a">>, <<"a">>, <<"a","a">> >>

\* a chunk that is one word: not empty, no whitespace in it
C11_SingleWord(chunk) ==
    /\ chunk # <<>>
    /\ \A i \in 1..Len(chunk) : ~IsSpace(chunk[i])

\* C11: every chunk of chunkDocument(text, size) has length <= size, unless
\* the chunk is one single word that is itself longer than size.
C11_ChunkLengthBound ==
    chunkPc = "done" =>
        \A i \in 1..Len(chunkResult) :
            \/ Len(chunkResult[i]) <= chunkSize
            \/ C11_SingleWord(chunkResult[i])

\* "aaa a", then a blank line, with size 2: the word "aaa" alone is longer
\* than 2 and is a chunk of its own; "a" is flushed at the empty paragraph
C11_Witness ==
    /\ chunkPc = "done"
    /\ chunkText = <<"a","a","a"," ","a","\n","\n">>
    /\ chunkSize = 2
    /\ chunkResult = << <<"a","a","a">>, <<"a">> >>

C13_GenericFailure ==
    (calls[1].pc = "failed" /\ calls[1].requests > 0) =>
        /\ calls[1].outcome = "GenerationFailed"
        /\ calls[1].requests = 1

\* what the caller of a rejected operation sees: the model-not-loaded
\* condition, and no engine call made
C14_Rejected(op, call, sideCall) ==
    IF op = "generateResponse"
    THEN /\ call.pc = "failed"
         /\ call.outcome = "ModelNotLoaded"
         /\ call.requests = 0
         /\ call.deltas = <<>>
    ELSE /\ sideCall.op = op
         /\ sideCall.pc = "failed"
         /\ sideCall.outcome = "ModelNotLoaded"
         /\ sideCall.requests = 0

\* C14: on the local backend, generateResponse, summarizeDocument and
\* extractKeyTopics called in a state other than ready fail with the
\* model-not-loaded condition before any engine call, and leave the bound
\* document and the history unchanged.
C14_NotReadyFailsFast ==
    [][ (/\ kind = "local"
         /\ ~Ready
         /\ lastOp'.op \in {"generateResponse", "summarize", "topics"})
        => (/\ C14_Rejected(lastOp'.op, calls'[1], side')
            /\ document' = document
            /\ chatHistory' = chatHistory) ]_vars

\* summarizeDocument after dispose, with a document still bound
C14_Witness ==
    /\ kind = "local"
    /\ lastOp.op = "summarize"
    /\ side.outcome = "ModelNotLoaded"
    /\ document = DocA
    /\ loads = 1
    /\ initPromise = "null"

(***************************************************************************)
(* Claims about extractKeyTopics and summarizeDocument.                    *)
(***************************************************************************)
\* C15: extractKeyTopics returns one entry per line of the response, in
\* order, each the trimmed line with a leading "-" (and the spaces after
\* it) removed: no returned topic starts with "-".
C15_TopicsParsed ==
    topPc = "done" =>
        LET lines == SplitOn(topText, "\n")
        IN  /\ Len(topResult) = Len(lines)
            /\ \A i \in 1..Len(lines) :
                   /\ topResult[i] = StripMarker(Trim(lines[i]))
                   /\ ~StartsWithDash(topResult[i])

\* C16: summarizeDocument with maximum M sends content of length <= M
\* unchanged, and replaces longer content by its first M/2 characters, the
\* elision marker and its last M/2 characters: M + 5 characters, starting
\* as the document starts and ending as it ends.
C16_SummaryTruncation ==
    sumPc = "done" =>
        LET n == Len(sumContent)
            half == sumMax \div 2
        IN  IF n <= sumMax
            THEN sumSent = sumContent
            ELSE /\ Len(sumSent) = sumMax + 5
                 /\ \A i \in 1..half : sumSent[i] = sumContent[i]
                 /\ \A i \in 1..5 : sumSent[half + i] = Elision[i]
                 /\ \A i \in 1..half :
                        sumSent[half + 5 + i] = sumContent[n - half + i]

\* a local document one character over the maximum
C16_Witness ==
    /\ sumPc = "done"
    /\ sumMax = LocalSummaryMax
    /\ Len(sumContent) = LocalSummaryMax + 1
    /\ Len(sumSent) = LocalSummaryMax + 5
    /\ sumSent # sumContent

(***************************************************************************)
(* Claims about readiness, stream decoding and failed calls.               *)
(***************************************************************************)
\* the readiness of the local backend, read off initPromise
C17_Phase ==
    CASE initPromise = "null" -> "uninitialized"
      [] initPromise = "pending" -> "initializing"
      [] initPromise = "resolved" -> "ready"
      [] initPromise = "rejected" -> "failed"

\* C17 as stated: readiness moves uninitialized -> initializing -> ready or
\* initializing -> failed only, the loader is invoked at most once, and a
\* ready instance stays ready.
C17_AsStated ==
    [][ /\ <<C17_Phase, C17_Phase'>> \in
              { <<"uninitialized", "uninitialized">>,
                <<"uninitialized", "initializing">>,
                <<"initializing", "initializing">>,
                <<"initializing", "ready">>,
                <<"initializing", "failed">>,
                <<"ready", "ready">>,
                <<"failed", "failed">> }
        /\ loads' <= 1 ]_vars

\* C17: readiness moves uninitialized -> initializing -> ready or
\* initializing -> failed, and ready -> uninitialized by dispose() only;
\* the loader is invoked only by an init() made while uninitialized; init()
\* in any other state loads nothing and changes no readiness; a ready
\* instance has its engine and stays ready until dispose().
C17_ReadinessLifecycle ==
    [][ /\ <<C17_Phase, C17_Phase'>> \in
              { <<"uninitialized", "uninitialized">>,
                <<"uninitialized", "initializing">>,
                <<"initializing", "initializing">>,
                <<"initializing", "ready">>,
                <<"initializing", "failed">>,
                <<"ready", "ready">>,
                <<"ready", "uninitialized">>,
                <<"failed", "failed">> }
        /\ (C17_Phase = "ready" /\ C17_Phase' # "ready")
              => lastOp'.op = "dispose"
        /\ loads' # loads
              => (C17_Phase = "uninitialized" /\ loads' = loads + 1
                  /\ C17_Phase' = "initializing")
        /\ lastOp'.op = "initAgain"
              => (loads' = loads /\ C17_Phase' = C17_Phase)
        /\ (C17_Phase' = "ready") <=> Ready' ]_vars

\* init() on a ready instance: still ready, the loader invoked once
C17_Witness ==
    /\ kind = "local"
    /\ lastOp.op = "initAgain"
    /\ Ready
    /\ loads = 1

\* the positions of a read at which a well-formed data line carries a
\* delta with content: the marker at the start of a line, one JSON payload,
\* then the end of the line
C18_Carriers(value) ==
    {i \in 2..Len(value) :
        /\ value[i].k = "json"
        /\ value[i].content # <<>>
        /\ value[i - 1] = Marker
        /\ (i = 2 \/ value[i - 2] = LineFeed)
        /\ (i = Len(value) \/ value[i + 1] = LineFeed)}

RECURSIVE C18_ContentsFrom(_, _)
C18_ContentsFrom(value, i) ==
    IF i > Len(value) THEN <<>>
    ELSE (IF i \in C18_Carriers(value) THEN << value[i].content >> ELSE <<>>)
            \o C18_ContentsFrom(value, i + 1)

\* C18: in the remote backend's decoding of a read, a malformed line is
\* skipped: onDelta is called, in order, for exactly the well-formed data
\* lines of the read that carry content, before and after a malformed one,
\* the result grows by exactly those contents, and the call goes on.
C18_MalformedLineSkipped ==
    [][ lastOp'.op = "readerRead" =>
          LET n == Len(calls[1].wire) - Len(calls'[1].wire)
              value == SubSeq(calls[1].wire, 1, n)
              delivered == C18_ContentsFrom(value, 1)
          IN  /\ calls'[1].deltas = calls[1].deltas \o delivered
              /\ calls'[1].response = calls[1].response \o Concat(delivered)
              /\ calls'[1].pc = "streaming" ]_vars

\* a stream with a malformed line between two fragments: the call returns
\* with both fragments delivered
C18_Witness ==
    /\ kind = "remote"
    /\ calls[1].pc = "returned"
    /\ calls[1].script = <<Frag(Hel), BadLine, Frag(Lo)>>
    /\ calls[1].deltas = <<Hel, Lo>>
    /\ calls[1].response = Hel \o Lo

\* C19: a generateResponse call that fails, at its preconditions, at the
\* request, on a non-OK status or in the middle of the stream, leaves the
\* history as it was; a step of a call changes the history only when the
\* generation completes, and then by appending the exchange.
C19_FailureKeepsHistory ==
    [][ /\ (lastOp'.call = 1 /\ calls'[1].pc = "failed")
              => chatHistory' = chatHistory
        /\ (lastOp'.call = 1 /\ chatHistory' # chatHistory)
              => (/\ calls[1].pc = "streaming"
                  /\ calls'[1].pc = "returned"
                  /\ chatHistory' = PushExchange(chatHistory,
                                         calls[1].question,
                                         calls[1].response)) ]_vars

\* a second call failed in the middle of its stream, after a delta was
\* delivered; the history holds the first exchange only
C19_Witness ==
    /\ calls[1].pc = "failed"
    /\ calls[1].deltas # <<>>
    /\ calls[1].requests = 1
    /\ Len(chatHistory) = 2
    /\ started = 2

\* the calls that have made their request and have not settled
C20_InFlight ==
    {c \in CallIds : calls[c].pc \in {"requested", "streaming", "errorBody"}}

\* C20: at most one generation is in flight per backend instance: a
\* generateResponse issued while an earlier one has not settled does not
\* start a second concurrent request.
C20_SingleFlight == Cardinality(C20_InFlight) <= 1

(***************************************************************************)
(* Claims about calls that overlap setDocument or each other.              *)
(***************************************************************************)
\* C22: the completion of a generateResponse call that was in flight when
\* setDocument was called adds nothing to the history.
C22_StaleCompletionAddsNothing ==
    [][ \A c \in CallIds :
          (calls[c].rebound /\ calls[c].pc = "streaming"
                            /\ calls'[c].pc = "returned")
             => chatHistory' = chatHistory ]_vars

\* C23: in the remote backend what generateResponse returns and hands to
\* onDelta depends on the body of the response only, not on how it is cut
\* into reads: they are what one read of the whole body gives.
C23_PartitionIndependent ==
    \A c \in CallIds :
        (kind = "remote" /\ calls[c].pc = "returned") =>
            LET whole == ReadContents(Encode(calls[c].script))
            IN  /\ calls[c].deltas = whole
                /\ calls[c].response = Concat(whole)

\* C25: on the local backend the failed state is absorbing: once a load
\* has failed the instance stays failed under init() and dispose(), no
\* later step invokes the loader or is one of its callbacks, and
\* isModelLoaded() stays false.
C25_FailedIsAbsorbing ==
    [][ C17_Phase = "failed" =>
          /\ C17_Phase' = "failed"
          /\ loads' = loads
          /\ lastOp'.op \notin {"init", "initLoaded", "initLoadFailed"}
          /\ ~isInitialized'
          /\ engine' = "null" ]_vars

\* dispose() on an instance whose load failed
C25_Witness ==
    /\ kind = "local"
    /\ C17_Phase = "failed"
    /\ lastOp.op = "dispose"
    /\ loads = 1
    /\ ~isInitialized

\* C27: in every reachable state of either backend, with setDocument and
\* overlapping generateResponse calls interleaved in any way, the history
\* has even length, its entries alternate user, assistant from a user
\* entry on, and each assistant entry is the response that was returned
\* for the question in the user entry before it.
C27_HistoryAlternates ==
    /\ Len(chatHistory) % 2 = 0
    /\ \A i \in 1..Len(chatHistory) :
          chatHistory[i].role = IF i % 2 = 1 THEN "user" ELSE "assistant"
    /\ \A k \in 1..(Len(chatHistory) \div 2) :
          \E j \in 1..Len(sinceClear) :
             /\ chatHistory[2 * k - 1].content = Raw(sinceClear[j][1])
             /\ chatHistory[2 * k].content = Raw(sinceClear[j][2])

\* call 1 has just completed while call 2 is streaming
C27_Witness ==
    /\ lastOp.op \in {"streamDone", "readerDone"}
    /\ lastOp.call = 1
    /\ calls[1].pc = "returned"
    /\ calls[2].pc = "streaming"
    /\ Len(chatHistory) = 4

(***************************************************************************)
(* Claims about the application around the services.                       *)
(***************************************************************************)
\* C24: an OpenAIService constructed with temperature t, t from 0.0 to 1.0
\* in steps of 0.1, sends t as the temperature of its request; t = 0 is
\* sent as 0.
C24_TemperatureSent ==
    (ctor.pc = "sent" /\ ctor.config.temperature \in 0..TemperatureSteps)
        => ctor.body.temperature = ctor.config.temperature

\* the ids and roles of a message list, in order
C21_Spine(messages) ==
    [i \in 1..Len(messages) |-> <<messages[i].id, messages[i].role>>]

\* C21: in the chat hook setDocument empties the message list; between two
\* setDocument calls the list only grows by appending, no message removed
\* or reordered; and a delta, the completion or the error text of a
\* generation that was started before a setDocument changes nothing in the
\* list after it.
C21_MessagesAppendOnly ==
    [][ /\ (hook'.last.op = "setDocument" => hook'.messages = <<>>)
        /\ (hook'.last.op # "setDocument" =>
              (/\ Len(hook'.messages) >= Len(hook.messages)
               /\ SubSeq(C21_Spine(hook'.messages), 1, Len(hook.messages))
                     = C21_Spine(hook.messages)))
        /\ \A s \in SendIds :
              (/\ hook.sends[s].stale
               /\ hook'.last.send = s
               /\ hook'.last.op \in {"delta", "resolved", "rejected"})
                 => hook'.messages = hook.messages ]_vars

\* a generation started before a setDocument is rejected after it, while
\* the list holds the messages of a later sendMessage
C21_Witness ==
    /\ hook.last.op = "rejected"
    /\ hook.sends[1].stale
    /\ hook.last.send = 1
    /\ Len(hook.messages) = 2
    /\ hook.messages[2].content = <<>>

\* C29: whenever a document was passed to the hook's setDocument and the
\* active service is non-null, the active service has the last such
\* document bound.
C29_ActiveServiceHasDocument ==
    (hook.lastDoc # 0 /\ ActiveService(hook).exists)
        => ActiveService(hook).doc = hook.lastDoc

\* C30: a sendMessage with non-blank content and an active service appends
\* one user and one assistant message and sets isGenerating; when the
\* generation settles, resolved or rejected, isGenerating is set back to
\* false, and a hook that is generating eventually is not; a sendMessage
\* that is blank or finds no active service appends nothing and leaves
\* isGenerating alone.
C30_SendMessageLifecycle ==
    /\ [][ /\ (hook'.last.op = "sendMessage" =>
                IF ActiveService(hook).exists
                THEN /\ Len(hook'.messages) = Len(hook.messages) + 2
                     /\ SubSeq(hook'.messages, 1, Len(hook.messages))
                           = hook.messages
                     /\ hook'.messages[Len(hook.messages) + 1].role = "user"
                     /\ hook'.messages[Len(hook.messages) + 2].role
                           = "assistant"
                     /\ hook'.isGenerating
                ELSE /\ hook'.messages = hook.messages
                     /\ hook'.isGenerating = hook.isGenerating)
            /\ (hook'.last.op = "sendBlank" =>
                (/\ hook'.messages = hook.messages
                 /\ hook'.isGenerating = hook.isGenerating))
            /\ (hook'.last.op \in {"resolved", "rejected"} =>
                ~hook'.isGenerating) ]_vars
    /\ (hook.isGenerating ~> ~hook.isGenerating)

\* a sendMessage whose generation was rejected: two messages, the second
\* with the error text, and isGenerating false again
C30_Witness ==
    /\ hook.last.op = "rejected"
    /\ ~hook.isGenerating
    /\ Len(hook.messages) = 2
    /\ hook.messages[1].role = "user"
    /\ hook.messages[2].content = <<"sorry">>

\* C26: after any sequence of ingestions, deleteDocument and
\* clearAllDocuments calls, interleaved at their await points,
\* lastProcessedDocumentId is unset or the id of a document in the store.
C26_LastIdInStore ==
    store.lastProcessedDocumentId # 0
        => store.lastProcessedDocumentId \in store.docs

\* a deleteDocument that started before an ingestion has removed its
\* document and is still in flight when the ingestion has stored a new
\* document and recorded its id
C26_Witness ==
    /\ store.ops[2].kind = "deleteDocument"
    /\ store.ops[2].pc = "listing"
    /\ store.ops[2].id \notin store.docs
    /\ store.ops[3].pc = "done"
    /\ store.ops[3].id = store.lastProcessedDocumentId
    /\ store.lastProcessedDocumentId \in store.docs

\* C28: the summary and the key topics DocumentAnalysis holds belong to the
\* document it shows: a summarizeDocument or extractKeyTopics call started
\* for one document does not set them after document.id changed.
C28_AnalysisOfShownDocument ==
    /\ analysis.summary # 0 => analysis.summary = analysis.document
    /\ analysis.keyTopics # 0 => analysis.keyTopics = analysis.document

====
